---- MODULE Spec2Model ----
(***************************************************************************)
(* Model of the restore-time analysis pipeline of PyQt_cycletime:          *)
(*   getCycleTime.py   (Extractor)                                         *)
(*   lineChart.py      (chart stage: min/max tags, truncates the store)    *)
(*   boxPlot.py        (boxplot stage: median/abnormal tags)               *)
(*   sortCycletime.py  (Classifier)                                        *)
(*   compare_min_max.py(Comparator)                                        *)
(*   main_controller.py(ScriptRunnerThread, the orchestrator)              *)
(*                                                                         *)
(* Floats are fixed-point integers counting 1/Unit seconds, so that the    *)
(* median, the linear-interpolation quartiles and the 1.5*IQR bounds are   *)
(* exact, and fine enough for values of four and five decimals; NaN and    *)
(* +inf are separate kinds with IEEE comparison rules.  The rounding error *)
(* of binary floating point is not modelled.                               *)
(***************************************************************************)
EXTENDS Integers, Sequences, FiniteSets, TLC

VARIABLES
    raw,            \* the raw log tree of each workstation, in listing order
    ext,            \* what the last process_workstation_folder call returned
    extracted,      \* extracted_data/<ws>_restore_times.json : ws -> file
    merged,         \* extracted_data/all_restore_times.json : ws -> entry
    sortLogs,       \* sort_logs/<ws>/ : the Classifier's output tree
    cls,            \* what the last process_workstation_logs call computed
    tables,         \* compare_form/<ws>/<ws>_comparison.csv : ws -> table
    cmp,            \* what the last Comparator run did
    store,          \* important_index.txt : sequence of lines
    chart,          \* what the last create_chart call computed
    info,           \* info.json and the folders it names, as run() finds them
    run,            \* the position of the ScriptRunnerThread
    ops,            \* what the current run did to the index store, in order
    box,            \* what the last create_single_boxplot call computed
    ordinal,        \* what the last get_ordinal_suffix call returned
    passes,         \* statistics processes running side by side: ws -> pass
    saved_indices,  \* self.saved_indices of a BoxPlotGenerator kept in use
    faults          \* the deletions and copies the last Classifier run logged as failed

vars == <<raw, ext, extracted, merged, sortLogs, cls, tables, cmp, store,
          chart, box, info, run, ops, ordinal, passes,
          saved_indices, faults>>

threadVars == <<info, run, ops>>

sideVars == <<ordinal, passes, saved_indices, faults>>

fileVars == <<raw, ext, merged, sortLogs, cls, tables, cmp>>

(***************************************************************************)
(* Bounds of the model.                                                    *)
(***************************************************************************)
MaxLen == 5         \* longest series fed to the statistics stages
MaxVal == 3         \* sample values are 1..MaxVal seconds (and NaN)
MaxStore == 4       \* the boxplot stage is not re-run on a store longer than this
MaxFiles == 3       \* most files in a raw log tree

Workstations == {"WS-1", "WS-2", "WS:3"}

(***************************************************************************)
(* Floats.                                                                 *)
(***************************************************************************)
Unit == 2 * 4 * 10000

FNum(x) == [k |-> "num", v |-> x]
NaN == [k |-> "nan", v |-> 0]
Inf == [k |-> "inf", v |-> 0]

IsNaN(a) == a.k = "nan"

\* a < b on Python floats: any comparison with NaN is False.
FLt(a, b) ==
    CASE a.k = "nan" \/ b.k = "nan" -> FALSE
      [] a.k = "inf" -> FALSE
      [] b.k = "inf" -> TRUE
      [] OTHER -> a.v < b.v

\* abs(a - b) for finite or NaN operands.
FAbsDiff(a, b) ==
    IF a.k = "nan" \/ b.k = "nan" THEN NaN
    ELSE FNum(IF a.v >= b.v THEN a.v - b.v ELSE b.v - a.v)

Seconds(n) == FNum(Unit * n)

SampleValues == {Seconds(n) : n \in 1..MaxVal} \cup {NaN}

SeriesOfLen(n) == [1..n -> SampleValues]
AllSeries == UNION {SeriesOfLen(n) : n \in 0..MaxLen}

HasNaN(data) == \E i \in 1..Len(data) : IsNaN(data[i])

(***************************************************************************)
(* numpy reductions used by the statistics stages.                         *)
(***************************************************************************)
RECURSIVE InsertSorted(_, _)
InsertSorted(x, s) ==
    IF s = <<>> THEN <<x>>
    ELSE IF x < Head(s) THEN <<x>> \o s
    ELSE <<Head(s)>> \o InsertSorted(x, Tail(s))

RECURSIVE SortInts(_)
SortInts(s) ==
    IF s = <<>> THEN <<>> ELSE InsertSorted(Head(s), SortInts(Tail(s)))

RawVals(data) == [i \in 1..Len(data) |-> data[i].v]

\* np.percentile(data, q), method 'linear'; NaN propagates.
NpPercentile(data, q) ==
    IF HasNaN(data) THEN NaN
    ELSE LET s == SortInts(RawVals(data))
             pos == (Len(s) - 1) * q
             lo == pos \div 100
             rem == pos % 100
             a == s[lo + 1]
             b == IF lo + 2 <= Len(s) THEN s[lo + 2] ELSE a
         IN  FNum(a + ((b - a) * rem) \div 100)

\* np.median(data); NaN propagates.
NpMedian(data) ==
    IF HasNaN(data) THEN NaN
    ELSE LET s == SortInts(RawVals(data))
             n == Len(s)
         IN  IF n % 2 = 1 THEN FNum(s[(n + 1) \div 2])
             ELSE FNum((s[n \div 2] + s[n \div 2 + 1]) \div 2)

\* np.min(data) / np.max(data); NaN propagates.
NpMin(data) ==
    IF HasNaN(data) THEN NaN ELSE FNum(SortInts(RawVals(data))[1])
NpMax(data) ==
    IF HasNaN(data) THEN NaN ELSE FNum(SortInts(RawVals(data))[Len(data)])

FSub(a, b) == IF IsNaN(a) \/ IsNaN(b) THEN NaN ELSE FNum(a.v - b.v)
FAdd(a, b) == IF IsNaN(a) \/ IsNaN(b) THEN NaN ELSE FNum(a.v + b.v)
\* 1.5 * a
FTimes15(a) == IF IsNaN(a) THEN NaN ELSE FNum((3 * a.v) \div 2)

\* Series.round(4): the nearest multiple of 0.0001, a tie going to the even
\* one; NaN stays NaN
Round4(a) ==
    IF a.k # "num" THEN a
    ELSE LET q == Unit \div 10000
             r == a.v % q
             base == a.v - r
         IN  FNum(IF 2 * r < q THEN base
                  ELSE IF 2 * r > q THEN base + q
                  ELSE IF (base \div q) % 2 = 0 THEN base ELSE base + q)

(***************************************************************************)
(* Timestamp tokens.  A token stands for the text matched by               *)
(* \d{4}-\d{2}-\d{2}_\d{2}-\d{2}-\d{2}, reduced to two of its zero-padded      *)
(* fields, <<day, second>>.  Day 00 matches the pattern but is no date.    *)
(***************************************************************************)
NoMatch == <<>>                 \* TIMESTAMP_PATTERN.search found nothing
UnknownId == <<"unknown">>      \* the Classifier's identifier for no match

ValidTokens == {<<1, 0>>, <<1, 1>>, <<2, 0>>}
BadDateToken == <<0, 0>>
Tokens == ValidTokens \cup {BadDateToken}

\* datetime.strptime(token, "%Y-%m-%d_%H-%M-%S"): ValueError on day 00
StrptimeOk(tok) == tok[1] >= 1

\* datetime < datetime
DtLt(a, b) == a[1] < b[1] \/ (a[1] = b[1] /\ a[2] < b[2])

(***************************************************************************)
(* Raw files.  A cycle-time record is a headerless ';'-separated table;    *)
(* a file is [dir, nameTs, kind, rows]: the token in the name of its       *)
(* nearest stamped parent folder, the token in its own name, the end of    *)
(* its name, and its rows (each a sequence of fields).                     *)
(***************************************************************************)
TargetRow == 7
TargetCol == 1

TextCell == [t |-> "text", f |-> NaN]
EmptyCell == [t |-> "empty", f |-> NaN]
NumCell(n) == [t |-> "num", f |-> Seconds(n)]

HeaderRow == <<TextCell, TextCell>>         \* Log Folder Path;<path>
FillerRow == <<TextCell, NumCell(1)>>       \* <stage>;<seconds>

\* a first field whose text is the stage label s, and the labels of the
\* rows written without one: the header row, then one stage per row
StageCell(s) == [t |-> "text", f |-> NaN, s |-> s]
DefaultStages ==
    <<"Log Folder Path", "stage2", "stage3", "stage4", "stage5", "stage6",
      "stage7", "stage8">>
StageOf(rows, i) ==
    IF "s" \in DOMAIN rows[i][1] THEN rows[i][1].s ELSE DefaultStages[i]
\* the labels in str order
StageOrder == <<"Boot">> \o DefaultStages

\* a record of TargetRow + 1 rows whose last row carries cell c
Filled(c) ==
    [i \in 1..(TargetRow + 1) |->
        IF i = 1 THEN HeaderRow
        ELSE IF i = TargetRow + 1 THEN <<TextCell, c>>
        ELSE FillerRow]
ShortRows == <<HeaderRow, FillerRow>>        \* too few rows
OneColRows == [i \in 1..(TargetRow + 1) |-> <<TextCell>>]
NoRows == <<>>                               \* a zero-byte file

CycleKind == "cycleTime.csv"
LogKind == "host.log"

IsCycleFile(f) == f.kind = CycleKind

(***************************************************************************)
(* getCycleTime.py : CycleTimeExtractor                                    *)
(***************************************************************************)
None == [ok |-> FALSE, val |-> NaN]
Some(x) == [ok |-> TRUE, val |-> x]

\* find_cycle_files: rglob("*cycleTime.csv"), in listing order
FindCycleFiles(tree) == SelectSeq(tree, IsCycleFile)

\* extract_timestamp: the token of the file NAME, parsed by strptime
ExtractTimestamp(f) ==
    IF f.nameTs = NoMatch THEN [ok |-> FALSE, ts |-> NoMatch]
    ELSE IF StrptimeOk(f.nameTs) THEN [ok |-> TRUE, ts |-> f.nameTs]
    ELSE [ok |-> FALSE, ts |-> NoMatch]

RECURSIVE MaxFields(_)
MaxFields(rows) ==
    IF rows = <<>> THEN 0
    ELSE LET m == MaxFields(Tail(rows))
         IN  IF Len(Head(rows)) > m THEN Len(Head(rows)) ELSE m

\* float(cell_value): a number, NaN for an empty field, ValueError on text
FloatOfCell(c) ==
    CASE c.t = "num" -> Some(c.f)
      [] c.t = "empty" -> Some(NaN)
      [] OTHER -> None

\* extract_restore_time: df.iloc[target_row, target_col] as a float
ExtractRestoreTime(f) ==
    IF f.rows = NoRows THEN None                    \* EmptyDataError
    ELSE IF Len(f.rows) > TargetRow /\ MaxFields(f.rows) >= TargetCol
         THEN IF MaxFields(f.rows) < TargetCol + 1
              THEN None                             \* IndexError, caught
              ELSE LET row == f.rows[TargetRow + 1]
                   IN  FloatOfCell(IF Len(row) >= TargetCol + 1
                                   THEN row[TargetCol + 1] ELSE EmptyCell)
         ELSE None

\* the loop of process_workstation_folder collecting (timestamp, restore_time)
RECURSIVE CollectTimeData(_)
CollectTimeData(files) ==
    IF files = <<>> THEN <<>>
    ELSE LET ts == ExtractTimestamp(Head(files))
             rt == ExtractRestoreTime(Head(files))
         IN  (IF ts.ok /\ rt.ok THEN <<[ts |-> ts.ts, val |-> rt.val]>> ELSE <<>>)
             \o CollectTimeData(Tail(files))

RECURSIVE InsertByTime(_, _)
InsertByTime(x, s) ==
    IF s = <<>> THEN <<x>>
    ELSE IF DtLt(x.ts, Head(s).ts) THEN <<x>> \o s
    ELSE <<Head(s)>> \o InsertByTime(x, Tail(s))

RECURSIVE SortFrom(_, _)
SortFrom(time_data, sorted) ==
    IF time_data = <<>> THEN sorted
    ELSE SortFrom(Tail(time_data), InsertByTime(Head(time_data), sorted))

\* a slip that would return the samples in listing order
LeaveUnsorted(time_data) == time_data

\* time_data.sort(key=lambda x: x[0]): a stable sort by timestamp
SortByTimestamp(time_data) == SortFrom(time_data, <<>>)

NoExt == [ran |-> FALSE, ws |-> "", returned |-> FALSE, times |-> <<>>,
          stamps |-> <<>>]

\* process_workstation_folder(folder_path, workstation_name)
ProcessWorkstationFolder(tree, ws) ==
    IF FindCycleFiles(tree) = <<>>
    THEN [NoExt EXCEPT !.ran = TRUE, !.ws = ws]
    ELSE LET sorted == SortByTimestamp(CollectTimeData(FindCycleFiles(tree)))
         IN  [ran |-> TRUE, ws |-> ws, returned |-> TRUE,
              times |-> [i \in 1..Len(sorted) |-> sorted[i].val],
              stamps |-> [i \in 1..Len(sorted) |-> sorted[i].ts]]

Absent == [present |-> FALSE, times |-> <<>>]
Present(times) == [present |-> TRUE, times |-> times]

\* a slip that would write the merged record from the new result alone
MergeFresh(all_results, w, times) ==
    [v \in Workstations |-> IF v = w THEN Present(times) ELSE Absent]

\* all_results.update(results) on the loaded all_restore_times.json
UpdateMerged(all_results, w, times) ==
    [all_results EXCEPT ![w] = Present(times)]

\* main(): nothing is written when the result is empty, and min(times)
\* raises on an empty list before any file is written.
Extract(w) ==
    LET r == ProcessWorkstationFolder(raw[w], w)
    IN  /\ ext' = r
        /\ IF r.returned /\ r.times # <<>>
           THEN /\ extracted' = [extracted EXCEPT ![w] = Present(r.times)]
                /\ merged' = UpdateMerged(merged, w, r.times)
           ELSE UNCHANGED <<extracted, merged>>
        /\ UNCHANGED <<raw, sortLogs, cls, tables, cmp, store, chart, box>>

(***************************************************************************)
(* The index store: one line "{workstation}:{role}:{index}" per tag.  A    *)
(* line is the sequence of its colon-separated fields.                     *)
(***************************************************************************)
Numerals == <<"1", "2", "3", "4", "5", "6", "7", "8", "9", "10", "11", "12">>

\* f"{idx}"
IntText(idx) == Numerals[idx]

\* the colon-separated pieces of a workstation identifier
WsFields(ws) == IF ws = "WS:3" THEN <<"WS", "3">> ELSE <<ws>>

\* f"{dataset_name}:{role}:{idx}"
TagLine(dataset_name, role, idx) ==
    WsFields(dataset_name) \o <<role, IntText(idx)>>

\* str.lower() on a role field
Lower(t) == IF t = "MIN" THEN "min" ELSE t

\* str.strip() on a field
Strip(t) == IF t = " WS-2" THEN "WS-2" ELSE t

NumeralSet == {Numerals[i] : i \in 1..Len(Numerals)}

\* parts[2].strip() of line.split(':', 2): everything after the second colon
ValueField(line) ==
    IF Len(line) = 3 THEN <<Strip(line[3])>> ELSE SubSeq(line, 3, Len(line))

\* int(value) succeeds on a single numeral; a value holding a colon or any
\* other text raises ValueError
IntOk(value) == Len(value) = 1 /\ value[1] \in NumeralSet
IntOf(value) == CHOOSE i \in 1..Len(Numerals) : Numerals[i] = value[1]

(***************************************************************************)
(* sortCycletime.py : LogProcessor                                         *)
(***************************************************************************)
EmptyDict == <<>>

\* index_dict[workstation_name][index_value].append(mark)
ClsAppend(dict, ws, idx, mark) ==
    LET inner == IF ws \in DOMAIN dict THEN dict[ws] ELSE EmptyDict
        inner2 == IF idx \in DOMAIN inner
                  THEN [inner EXCEPT ![idx] = Append(@, mark)]
                  ELSE inner @@ (idx :> <<mark>>)
    IN  IF ws \in DOMAIN dict THEN [dict EXCEPT ![ws] = inner2]
        ELSE dict @@ (ws :> inner2)

\* a slip that would keep only the roles the Comparator knows
ClsLoadLineFiltered(dict, line) ==
    IF Len(line) < 3 THEN dict
    ELSE IF IntOk(ValueField(line))
              /\ Lower(Strip(line[2])) \in {"min", "max", "abnormal"}
         THEN ClsAppend(dict, Strip(line[1]), IntOf(ValueField(line)),
                        Lower(Strip(line[2])))
         ELSE dict

\* the body of the loop of load_important_indices, for one line
ClsLoadLine(dict, line) ==
    IF Len(line) < 3 THEN dict
    ELSE IF IntOk(ValueField(line))
         THEN ClsAppend(dict, Strip(line[1]), IntOf(ValueField(line)),
                        Lower(Strip(line[2])))
         ELSE dict

RECURSIVE ClsLoadFrom(_, _)
ClsLoadFrom(lines, dict) ==
    IF lines = <<>> THEN dict
    ELSE ClsLoadFrom(Tail(lines), ClsLoadLine(dict, Head(lines)))

\* load_important_indices(): {workstation: {index: [marks]}}
LoadImportantIndices(lines) == ClsLoadFrom(lines, EmptyDict)

\* find_log_files: one rglob per pattern, the cycle-time records first
IsLogFile(f) == f.kind = LogKind
FindLogFiles(tree) == SelectSeq(tree, IsCycleFile) \o SelectSeq(tree, IsLogFile)

\* extract_timestamp_identifier: the first match walking the path parts
\* backwards, i.e. the file name and then its parent folders
ExtractTimestampIdentifier(f) ==
    IF f.nameTs # NoMatch THEN f.nameTs
    ELSE IF f.dir # NoMatch THEN f.dir
    ELSE UnknownId

\* str < str on identifiers: digits sort before the letter u, and two
\* zero-padded tokens compare field by field
StrLt(a, b) ==
    IF a = UnknownId THEN FALSE
    ELSE IF b = UnknownId THEN TRUE
    ELSE a[1] < b[1] \/ (a[1] = b[1] /\ a[2] < b[2])

\* group_files_by_timestamp: the files of one identifier, in listing order
GroupOf(files, ts) ==
    SelectSeq(files, LAMBDA f : ExtractTimestampIdentifier(f) = ts)

RECURSIVE InsertKey(_, _)
InsertKey(k, s) ==
    IF s = <<>> THEN <<k>>
    ELSE IF k = Head(s) THEN s
    ELSE IF StrLt(k, Head(s)) THEN <<k>> \o s
    ELSE <<Head(s)>> \o InsertKey(k, Tail(s))

RECURSIVE SortedKeysFrom(_, _)
SortedKeysFrom(files, keys) ==
    IF files = <<>> THEN keys
    ELSE SortedKeysFrom(Tail(files),
                        InsertKey(ExtractTimestampIdentifier(Head(files)), keys))

\* sorted(timestamp_groups.keys())
SortedTimestamps(files) == SortedKeysFrom(files, <<>>)

\* sorted(marks): the role texts in str order
MarkOrder == <<"abnormal", "max", "median", "min", "other">>
MarkRank(m) == CHOOSE i \in 1..Len(MarkOrder) : MarkOrder[i] = m

RECURSIVE InsertMark(_, _)
InsertMark(m, s) ==
    IF s = <<>> THEN <<m>>
    ELSE IF MarkRank(m) < MarkRank(Head(s)) THEN <<m>> \o s
    ELSE <<Head(s)>> \o InsertMark(m, Tail(s))

RECURSIVE SortMarks(_)
SortMarks(marks) ==
    IF marks = <<>> THEN <<>> ELSE InsertMark(Head(marks), SortMarks(Tail(marks)))

\* names inside sort_logs/<ws>/.  A name is kept as the values formatted
\* into it; f"{index:03d}_" is a prefix no other index shares.
RootDir == [index |-> 0, marks |-> <<>>, ts |-> NoMatch]

\* format_folder_name: f"{index:03d}_{marks joined by _}_{timestamp}"
FormatFolderName(index, marks, timestamp) ==
    [index |-> index, marks |-> SortMarks(marks), ts |-> timestamp]

\* src_path.name
BaseName(f) == <<f.nameTs, f.kind>>

OrigName(f) == [style |-> "orig", index |-> 0, ts |-> NoMatch, base |-> BaseName(f)]
\* f"{index:03d}_{timestamp}-cycleTime.csv"
RootCopyName(index, timestamp) ==
    [style |-> "rootcopy", index |-> index, ts |-> timestamp, base |-> <<>>]
\* f"{index:03d}_{timestamp}_{src_path.name}"
PlainName(index, timestamp, f) ==
    [style |-> "plain", index |-> index, ts |-> timestamp, base |-> BaseName(f)]

\* shutil.copy2(src, dest): dest is created or overwritten
Copy2(files, dir, name, src) ==
    {e \in files : ~(e.dir = dir /\ e.name = name)}
    \cup {[dir |-> dir, name |-> name, src |-> src]}

RECURSIVE CopyImportant(_, _, _, _, _)
CopyImportant(group, folder, index, timestamp, files) ==
    IF group = <<>> THEN files
    ELSE LET f == Head(group)
             inFolder == Copy2(files, folder, OrigName(f), f)
             withRoot == IF IsCycleFile(f)
                         THEN Copy2(inFolder, RootDir,
                                    RootCopyName(index, timestamp), f)
                         ELSE inFolder
         IN  CopyImportant(Tail(group), folder, index, timestamp, withRoot)

\* src_path.suffix.lower() == '.csv'
IsCsv(f) == f.kind = CycleKind

RECURSIVE CopyPlain(_, _, _, _)
CopyPlain(group, index, timestamp, files) ==
    IF group = <<>> THEN files
    ELSE LET f == Head(group)
         IN  CopyPlain(Tail(group), index, timestamp,
                       IF IsCsv(f)
                       THEN Copy2(files, RootDir, PlainName(index, timestamp, f), f)
                       ELSE files)

\* process_timestamp_group
ProcessTimestampGroup(group, timestamp, index, important_marks, out) ==
    IF index \in DOMAIN important_marks
    THEN LET folder == FormatFolderName(index, important_marks[index], timestamp)
         IN  [exists |-> TRUE,
              folders |-> out.folders \cup {folder},
              files |-> CopyImportant(group, folder, index, timestamp, out.files)]
    ELSE [out EXCEPT !.files = CopyPlain(group, index, timestamp, out.files)]

RECURSIVE ProcessGroups(_, _, _, _, _)
ProcessGroups(all_files, keys, idx, important_marks, out) ==
    IF idx > Len(keys) THEN out
    ELSE ProcessGroups(all_files, keys, idx + 1, important_marks,
            ProcessTimestampGroup(GroupOf(all_files, keys[idx]), keys[idx], idx,
                                  important_marks, out))

NoDir == [exists |-> FALSE, folders |-> {}, files |-> {}]
EmptyDir == [exists |-> TRUE, folders |-> {}, files |-> {}]
NoOutput == [w \in Workstations |-> NoDir]

NoCls == [ran |-> FALSE, ws |-> "", lines |-> <<>>, marks |-> EmptyDict,
          keys |-> <<>>]

\* self.important_indices.get(workstation_name, {})
MarksFor(dict, ws) == IF ws \in DOMAIN dict THEN dict[ws] ELSE EmptyDict

\* clean_output_directory(output_dir): a missing folder is created, an
\* existing one loses every file and every subfolder
CleanOutputDirectory(dir) ==
    IF ~dir.exists THEN EmptyDir
    ELSE [dir EXCEPT !.folders = {}, !.files = {}]

\* a slip that would empty an existing output folder after the copying
\* instead of before it
ProcessThenClean(tree, ws, lines) ==
    LET important_marks == MarksFor(LoadImportantIndices(lines), ws)
        all_files == FindLogFiles(tree)
        keys == SortedTimestamps(all_files)
        copied == ProcessGroups(all_files, keys, 1, important_marks,
                                [sortLogs[ws] EXCEPT !.exists = TRUE])
    IN  [cls |-> [ran |-> TRUE, ws |-> ws, lines |-> lines,
                  marks |-> important_marks, keys |-> keys],
         out |-> IF sortLogs[ws].exists THEN CleanOutputDirectory(copied)
                 ELSE copied]

\* process_workstation_logs(source_dir, workstation_name), after __init__
\* has loaded the index store: the output folder is emptied, the files are
\* grouped and numbered, and every group is copied.
ProcessWorkstationLogs(tree, ws, lines) ==
    LET important_marks == MarksFor(LoadImportantIndices(lines), ws)
        all_files == FindLogFiles(tree)
        keys == SortedTimestamps(all_files)
    IN  [cls |-> [ran |-> TRUE, ws |-> ws, lines |-> lines,
                  marks |-> important_marks, keys |-> keys],
         out |-> ProcessGroups(all_files, keys, 1, important_marks,
                               CleanOutputDirectory(sortLogs[ws]))]

\* clean_output_directory when unlink or rmtree raises for some items: the
\* folders and files named stay, every other item goes
CleanOutputDirectoryExcept(dir, folders, files) ==
    IF ~dir.exists THEN EmptyDir
    ELSE [dir EXCEPT !.folders = @ \cap folders, !.files = @ \cap files]

\* a slip that would leave the loop over the groups at the first copy that
\* raises
RECURSIVE ProcessGroupsUntilFailure(_, _, _, _, _, _)
ProcessGroupsUntilFailure(all_files, keys, idx, important_marks, out, sources) ==
    IF idx > Len(keys) THEN out
    ELSE IF \E k \in 1..Len(all_files) :
               /\ all_files[k] \in sources
               /\ ExtractTimestampIdentifier(all_files[k]) = keys[idx]
    THEN out
    ELSE ProcessGroupsUntilFailure(all_files, keys, idx + 1, important_marks,
            ProcessTimestampGroup(GroupOf(all_files, keys[idx]), keys[idx], idx,
                                  important_marks, out), sources)

\* the loop over the groups when shutil.copy2 raises for the source files
\* named: the except clause of the file logs it and the loop goes on
RECURSIVE ProcessGroupsExcept(_, _, _, _, _, _)
ProcessGroupsExcept(all_files, keys, idx, important_marks, out, sources) ==
    IF idx > Len(keys) THEN out
    ELSE ProcessGroupsExcept(all_files, keys, idx + 1, important_marks,
            ProcessTimestampGroup(
                SelectSeq(GroupOf(all_files, keys[idx]),
                          LAMBDA f : f \notin sources),
                keys[idx], idx, important_marks, out), sources)

\* process_workstation_logs with failing deletions and copies
ProcessWorkstationLogsExcept(tree, ws, lines, folders, files, sources) ==
    LET important_marks == MarksFor(LoadImportantIndices(lines), ws)
        all_files == FindLogFiles(tree)
        keys == SortedTimestamps(all_files)
    IN  [cls |-> [ran |-> TRUE, ws |-> ws, lines |-> lines,
                  marks |-> important_marks, keys |-> keys],
         out |-> ProcessGroupsExcept(all_files, keys, 1, important_marks,
                    CleanOutputDirectoryExcept(sortLogs[ws], folders, files),
                    sources)]

Sort(w) ==
    LET r == ProcessWorkstationLogs(raw[w], w, store)
    IN  /\ cls' = r.cls
        /\ sortLogs' = [sortLogs EXCEPT ![w] = r.out]
        /\ UNCHANGED <<raw, ext, extracted, merged, tables, cmp, store, chart, box>>

(***************************************************************************)
(* compare_min_max.py : CSVComparator                                      *)
(***************************************************************************)
NoIndices == [order |-> <<>>, roles |-> EmptyDict]
EmptyRoles == [min |-> <<>>, max |-> <<>>, abnormal |-> <<>>]

\* the body of the loop of parse_index_file, for one line
CmpParseLine(d, line) ==
    IF Len(line) < 3 THEN d
    ELSE LET ws == Strip(line[1])
             key == Lower(Strip(line[2]))
             d1 == IF ws \in DOMAIN d.roles THEN d
                   ELSE [order |-> Append(d.order, ws),
                         roles |-> d.roles @@ (ws :> EmptyRoles)]
         IN  IF key \in {"min", "max", "abnormal"}
             THEN [d1 EXCEPT !.roles[ws][key] = Append(@, ValueField(line))]
             ELSE d1

RECURSIVE CmpParseFrom(_, _)
CmpParseFrom(lines, d) ==
    IF lines = <<>> THEN d
    ELSE CmpParseFrom(Tail(lines), CmpParseLine(d, Head(lines)))

\* parse_index_file(): {workstation: {'min': [...], 'max': [...],
\* 'abnormal': [...]}} in first-appearance order, the values kept as text
ParseIndexFile(lines) == CmpParseFrom(lines, NoIndices)

\* get_ordinal_suffix without the test on the last two digits
SuffixByLastDigit(num) ==
    LET suffix == IF num % 10 = 1 THEN "st"
                  ELSE IF num % 10 = 2 THEN "nd"
                  ELSE IF num % 10 = 3 THEN "rd"
                  ELSE "th"
    IN  [num |-> num, suffix |-> suffix, text |-> <<>>]

\* get_ordinal_suffix, the try block once int(number) has succeeded
OrdinalOfInt(num) ==
    LET suffix == IF 10 <= num % 100 /\ num % 100 <= 20 THEN "th"
                  ELSE IF num % 10 = 1 THEN "st"
                  ELSE IF num % 10 = 2 THEN "nd"
                  ELSE IF num % 10 = 3 THEN "rd"
                  ELSE "th"
    IN  [num |-> num, suffix |-> suffix, text |-> <<>>]

\* get_ordinal_suffix(number)
GetOrdinalSuffix(value) ==
    IF ~IntOk(value) THEN [num |-> 0, suffix |-> "", text |-> value]
    ELSE OrdinalOfInt(IntOf(value))

\* pd.to_numeric(df['Time'], errors='coerce') on one field
ToNumeric(cell) == IF cell.t = "num" THEN cell.f ELSE NaN

\* parse_file(file_path): the Series Stage -> Time as a sequence of
\* [stage, time].  Rows without a second field or with an empty one are
\* dropped, the other values are coerced to numbers (NaN for text), and of
\* the rows of one stage the last is kept.
ParseFile(rows) ==
    LET kept == {i \in 1..Len(rows) :
                    Len(rows[i]) >= 2 /\ rows[i][2].t # "empty"}
        last == {i \in kept :
                    \A j \in kept : j > i => StageOf(rows, j) # StageOf(rows, i)}
        nth(n) == CHOOSE i \in last : Cardinality({j \in last : j < i}) = n - 1
    IN  [n \in 1..Cardinality(last) |->
            [stage |-> StageOf(rows, nth(n)), time |-> ToNumeric(rows[nth(n)][2])]]

\* parse_file(file_path).empty: no row keeps a non-empty second field
\* (a zero-byte or one-column file fails to parse and gives an empty Series)
ParseFileEmpty(rows) ==
    ~ \E i \in 1..Len(rows) : Len(rows[i]) >= 2 /\ rows[i][2].t # "empty"

\* the entries of sort_logs/<ws>/ matched by f"{int(index):03d}_*_*cycleTime.csv":
\* a plain copy, or a root copy whose identifier holds an underscore
GlobFirst(dir, i) ==
    {e \in dir.files :
        /\ e.dir = RootDir /\ e.name.index = i /\ e.src.kind = CycleKind
        /\ \/ e.name.style = "plain"
           \/ e.name.style = "rootcopy" /\ e.name.ts # UnknownId}

\* ... and by f"{int(index):03d}_*cycleTime.csv"
GlobSecond(dir, i) ==
    {e \in dir.files :
        /\ e.dir = RootDir /\ e.name.index = i /\ e.src.kind = CycleKind
        /\ e.name.style \in {"plain", "rootcopy"}}

OutputOf(base, ws) == IF ws \in DOMAIN base THEN base[ws] ELSE NoDir

\* a slip that would drop the index prefix from the patterns
FoundAnyIndex(base, ws, i) ==
    {e \in OutputOf(base, ws).files :
        /\ e.dir = RootDir /\ e.src.kind = CycleKind
        /\ e.name.style \in {"plain", "rootcopy"}}

\* find_cycle_file, after int(index) succeeded: the candidates for
\* found_files[0]; glob gives them in directory order, so any can be first
FoundFiles(base, ws, i) ==
    LET first == GlobFirst(OutputOf(base, ws), i)
    IN  IF first # {} THEN first ELSE GlobSecond(OutputOf(base, ws), i)

\* [(index, file_path) for index in indices if find_cycle_file(...)]:
\* every list the directory order allows
RECURSIVE FindAll(_, _, _)
FindAll(base, ws, values) ==
    IF values = <<>> THEN {<<>>}
    ELSE LET found == FoundFiles(base, ws, IntOf(Head(values)))
             rest == FindAll(base, ws, Tail(values))
         IN  IF found = {} THEN rest
             ELSE {<<[index |-> Head(values), file |-> e]>> \o r :
                      e \in found, r \in rest}

\* all_data[label] = data: a new key goes last, an old key keeps its place
PutColumn(cols, label, src) ==
    LET col == [label |-> label, src |-> src, data |-> ParseFile(src.rows)]
    IN  IF \E i \in 1..Len(cols) : cols[i].label = label
        THEN [i \in 1..Len(cols) |-> IF cols[i].label = label THEN col ELSE cols[i]]
        ELSE Append(cols, col)

\* a slip that would label every column as the first of its role
LabelFirst(kind, abn, value) ==
    [kind |-> kind, abnormal |-> abn, ordinal |-> GetOrdinalSuffix(<<"1">>)]

\* f"{role}({ordinal_index} loop)" or f"{role}_abnormal({ordinal_index} loop)"
Label(kind, abn, value) ==
    [kind |-> kind, abnormal |-> abn, ordinal |-> GetOrdinalSuffix(value)]

IndexSet(files) == {files[i].index : i \in 1..Len(files)}

RECURSIVE AddColumns(_, _, _, _, _)
AddColumns(files, kind, tagged, skipped, cols) ==
    IF files = <<>> THEN cols
    ELSE LET index == Head(files).index
             src == Head(files).file.src
             next ==
                 IF index \in skipped \/ ParseFileEmpty(src.rows) THEN cols
                 ELSE PutColumn(cols, Label(kind, index \in tagged, index), src)
         IN  AddColumns(Tail(files), kind, tagged, skipped, next)

\* a slip that would take the last column of the kind
LastOfKind(cols, kind) ==
    LET S == {i \in 1..Len(cols) : cols[i].label.kind = kind}
    IN  IF S = {} THEN 0 ELSE CHOOSE i \in S : \A j \in S : i >= j

\* min_cols[0] / max_cols[0]: the first column whose name starts with the kind
FirstOfKind(cols, kind) ==
    LET S == {i \in 1..Len(cols) : cols[i].label.kind = kind}
    IN  IF S = {} THEN 0 ELSE CHOOSE i \in S : \A j \in S : i <= j

StagesOf(data) == [n \in 1..Len(data) |-> data[n].stage]

\* pd.DataFrame(all_data).index: the stages of the columns when all columns
\* list the same stages in the same order, otherwise the sorted union
TableIndex(cols) ==
    IF cols = <<>> THEN <<>>
    ELSE IF \A c \in 1..Len(cols) : StagesOf(cols[c].data) = StagesOf(cols[1].data)
    THEN StagesOf(cols[1].data)
    ELSE LET all == UNION {{cols[c].data[n].stage : n \in 1..Len(cols[c].data)} :
                             c \in 1..Len(cols)}
         IN  SelectSeq(StageOrder, LAMBDA s : s \in all)

\* result[col] at a stage row: NaN where the column has no such stage
ValueAt(data, stage) ==
    IF \E n \in 1..Len(data) : data[n].stage = stage
    THEN data[CHOOSE n \in 1..Len(data) : data[n].stage = stage].time
    ELSE NaN

\* (result[max_col] - result[min_col]).round(4), row by row
TimeDifference(index, max_data, min_data) ==
    [r \in 1..Len(index) |->
        Round4(FSub(ValueAt(max_data, index[r]), ValueAt(min_data, index[r])))]

\* result.iloc[1:] when the first row is the 'Log Folder Path' row
DropLeading(index, seq) ==
    IF index # <<>> /\ index[1] = "Log Folder Path" /\ seq # <<>>
    THEN Tail(seq) ELSE seq

\* process_comparison: the columns of <ws>_comparison.csv in order, the two
\* columns Time_Difference(Max-Min) is computed from, the stage rows and
\* the Time_Difference value of every row
ProcessComparison(min_files, max_files, abnormal_files) ==
    LET abnormal_indices == IndexSet(abnormal_files)
        c1 == AddColumns(max_files, "Max", abnormal_indices, {}, <<>>)
        c2 == AddColumns(min_files, "Min", abnormal_indices, {}, c1)
        c3 == AddColumns(abnormal_files, "Abnormal", {},
                         IndexSet(min_files) \cup IndexSet(max_files), c2)
        mn == FirstOfKind(c3, "Min")
        mx == FirstOfKind(c3, "Max")
        index == TableIndex(c3)
    IN  [columns |-> c3,
         diff |-> IF mn # 0 /\ mx # 0 THEN <<mx, mn>> ELSE <<>>,
         stages |-> DropLeading(index, index),
         delta |-> IF mn # 0 /\ mx # 0
                   THEN DropLeading(index,
                            TimeDifference(index, c3[mx].data, c3[mn].data))
                   ELSE <<>>]

NoTables == EmptyDict
NoCmp == [ran |-> FALSE, crashed |-> FALSE, lines |-> <<>>,
          indices |-> NoIndices, visited |-> <<>>, found |-> <<>>]

WriteTable(tabs, ws, t) ==
    IF ws \in DOMAIN tabs THEN [tabs EXCEPT ![ws] = t] ELSE tabs @@ (ws :> t)

Tagged(ws, role, files) ==
    [i \in 1..Len(files) |->
        [ws |-> ws, role |-> role, index |-> files[i].index,
         file |-> files[i].file]]

\* the loop of process_all_workstations from one workstation on: every
\* outcome the directory order allows.  int(index) of a value that is no
\* integer raises ValueError out of find_cycle_file and ends the loop.
RECURSIVE CompareFrom(_, _, _, _)
CompareFrom(order, all_indices, base, st) ==
    IF order = <<>> THEN {st}
    ELSE LET ws == Head(order)
             indices == all_indices.roles[ws]
             wanted == indices.min \o indices.max \o indices.abnormal
             seen == [st EXCEPT !.visited = Append(@, ws)]
         IN  IF \E i \in 1..Len(wanted) : ~IntOk(wanted[i])
             THEN {[seen EXCEPT !.crashed = TRUE]}
             ELSE UNION {
                    CompareFrom(Tail(order), all_indices, base,
                        IF mn = <<>> /\ mx = <<>> /\ ab = <<>> THEN seen
                        ELSE [seen EXCEPT
                                !.found = @ \o Tagged(ws, "min", mn)
                                            \o Tagged(ws, "max", mx)
                                            \o Tagged(ws, "abnormal", ab),
                                !.tables = WriteTable(@, ws,
                                              ProcessComparison(mn, mx, ab))]) :
                      mn \in FindAll(base, ws, indices.min),
                      mx \in FindAll(base, ws, indices.max),
                      ab \in FindAll(base, ws, indices.abnormal)}

\* process_all_workstations()
ProcessAllWorkstations(lines, base, tabs) ==
    LET all_indices == ParseIndexFile(lines)
    IN  CompareFrom(all_indices.order, all_indices, base,
                    [crashed |-> FALSE, visited |-> <<>>, found |-> <<>>,
                     tables |-> tabs, indices |-> all_indices])

Compare ==
    \E r \in ProcessAllWorkstations(store, sortLogs, tables) :
        /\ cmp' = [ran |-> TRUE, crashed |-> r.crashed, lines |-> store,
                   indices |-> r.indices, visited |-> r.visited,
                   found |-> r.found]
        /\ tables' = r.tables
        /\ UNCHANGED <<raw, ext, extracted, merged, sortLogs, cls, store,
                       chart, box>>

(***************************************************************************)
(* boxPlot.py : BoxPlotGenerator                                           *)
(***************************************************************************)
NoStats == [empty |-> TRUE, median |-> NaN, q1 |-> NaN, q3 |-> NaN,
            iqr |-> NaN, lower_bound |-> NaN, upper_bound |-> NaN,
            min |-> NaN, max |-> NaN]

\* calculate_statistics (the mean is not used by any index and is left out)
BoxCalculateStatistics(data) ==
    IF data = <<>> THEN NoStats
    ELSE LET q1 == NpPercentile(data, 25)
             q3 == NpPercentile(data, 75)
             iqr == FSub(q3, q1)
         IN  [empty |-> FALSE,
              median |-> NpMedian(data),
              q1 |-> q1, q3 |-> q3, iqr |-> iqr,
              lower_bound |-> FSub(q1, FTimes15(iqr)),
              upper_bound |-> FAdd(q3, FTimes15(iqr)),
              min |-> NpMin(data), max |-> NpMax(data)]

\* a slip that would also report a value lying on a bound
IsOutlierInclusive(val, lower_bound, upper_bound) ==
    ~FLt(lower_bound, val) \/ ~FLt(val, upper_bound)

\* the loop body's test of find_extreme_indices
IsOutlier(val, lower_bound, upper_bound) ==
    FLt(val, lower_bound) \/ FLt(upper_bound, val)

RECURSIVE OutlierScan(_, _, _, _)
OutlierScan(data, lower_bound, upper_bound, idx) ==
    IF idx > Len(data) THEN <<>>
    ELSE (IF IsOutlier(data[idx], lower_bound, upper_bound)
          THEN <<[idx |-> idx, val |-> data[idx]]>> ELSE <<>>)
         \o OutlierScan(data, lower_bound, upper_bound, idx + 1)

\* find_extreme_indices(data, lower_bound, upper_bound)
BoxFindExtremeIndices(data, lower_bound, upper_bound) ==
    OutlierScan(data, lower_bound, upper_bound, 1)

\* a slip that would let a later, equally close sample win
CloserOrEqual(diff, min_diff) == ~FLt(min_diff, diff) /\ ~IsNaN(diff)

\* the comparison that moves closest_index in find_median_index
CloserThan(diff, min_diff) == FLt(diff, min_diff)

RECURSIVE MedianScan(_, _, _, _, _)
MedianScan(data, median_value, i, closest_index, min_diff) ==
    IF i > Len(data) THEN closest_index
    ELSE LET diff == FAbsDiff(data[i], median_value)
         IN  IF CloserThan(diff, min_diff)
             THEN MedianScan(data, median_value, i + 1, i, diff)
             ELSE MedianScan(data, median_value, i + 1, closest_index, min_diff)

\* find_median_index(data, median_value)
FindMedianIndex(data, median_value) ==
    MedianScan(data, median_value, 1, 1, Inf)

\* a slip that would append every key without looking at saved_indices
BoxSaveKeysAll(keys, lines, saved) ==
    [lines |-> lines \o keys,
     saved |-> saved \cup {keys[k] : k \in 1..Len(keys)}]

\* save_important_indices(dataset_name, median_index, outlier_indices):
\* appends every key not yet in saved_indices; yields the lines and the set.
RECURSIVE BoxSaveKeys(_, _, _)
BoxSaveKeys(keys, lines, saved) ==
    IF keys = <<>> THEN [lines |-> lines, saved |-> saved]
    ELSE IF Head(keys) \in saved
         THEN BoxSaveKeys(Tail(keys), lines, saved)
         ELSE BoxSaveKeys(Tail(keys), Append(lines, Head(keys)),
                          saved \cup {Head(keys)})

BoxSaveImportantIndices(lines, saved, dataset_name, median_index, outlier_indices) ==
    BoxSaveKeys(<<TagLine(dataset_name, "median", median_index)>>
                  \o [j \in 1..Len(outlier_indices) |->
                        TagLine(dataset_name, "abnormal", outlier_indices[j])],
                lines, saved)

NoBox == [ran |-> FALSE, ws |-> "", data |-> <<>>, stats |-> NoStats,
          outliers |-> <<>>, median_index |-> 0]

\* a slip that would go on without the test for an empty series
BoxResultUnguarded(ws, data) ==
    LET stats == BoxCalculateStatistics(data)
    IN  [ran |-> TRUE, ws |-> ws, data |-> data, stats |-> stats,
         outliers |-> BoxFindExtremeIndices(data, stats.lower_bound,
                                            stats.upper_bound),
         median_index |-> FindMedianIndex(data, stats.median)]

\* create_single_boxplot(workstation_name, data): the computed values
BoxResult(ws, data) ==
    IF data = <<>> THEN [NoBox EXCEPT !.ran = TRUE, !.ws = ws]
    ELSE LET stats == BoxCalculateStatistics(data)
         IN  [ran |-> TRUE, ws |-> ws, data |-> data, stats |-> stats,
              outliers |-> BoxFindExtremeIndices(data, stats.lower_bound,
                                                 stats.upper_bound),
              median_index |-> FindMedianIndex(data, stats.median)]

\* generate_boxplots(): saved_indices is cleared, the workstation's json is
\* loaded, and its one series goes through create_single_boxplot.
GenerateBoxplots(w) ==
    /\ IF ~extracted[w].present
       THEN UNCHANGED <<store, box>>
       ELSE LET data == extracted[w].times
                r == BoxResult(w, data)
            IN  /\ box' = r
                /\ store' =
                     IF data = <<>> THEN store
                     ELSE BoxSaveImportantIndices(store, {}, w, r.median_index,
                            [j \in 1..Len(r.outliers) |-> r.outliers[j].idx]).lines
    /\ UNCHANGED <<extracted, chart, fileVars>>

(***************************************************************************)
(* lineChart.py : RestoreTimeChartGenerator                                *)
(***************************************************************************)
FEq(a, b) == ~IsNaN(a) /\ ~IsNaN(b) /\ a.v = b.v

RECURSIVE IndicesEqualTo(_, _, _)
IndicesEqualTo(data, value, i) ==
    IF i > Len(data) THEN <<>>
    ELSE (IF FEq(data[i], value) THEN <<i>> ELSE <<>>)
         \o IndicesEqualTo(data, value, i + 1)

\* find_extreme_indices(restore_times)
ChartFindExtremeIndices(restore_times) ==
    IF restore_times = <<>> THEN [min_indices |-> <<>>, max_indices |-> <<>>]
    ELSE [min_indices |-> IndicesEqualTo(restore_times, NpMin(restore_times), 1),
          max_indices |-> IndicesEqualTo(restore_times, NpMax(restore_times), 1)]

\* save_important_indices(dataset_name, min_indices, max_indices)
ChartSaveImportantIndices(lines, dataset_name, min_indices, max_indices) ==
    lines \o [j \in 1..Len(min_indices) |-> TagLine(dataset_name, "min", min_indices[j])]
          \o [j \in 1..Len(max_indices) |-> TagLine(dataset_name, "max", max_indices[j])]

NoChart == [ran |-> FALSE, ws |-> "", data |-> <<>>,
            min_indices |-> <<>>, max_indices |-> <<>>]

\* a slip that would open the store for appending only
GenerateChartsKeepStore(w) ==
    /\ IF ~extracted[w].present
       THEN UNCHANGED <<store, chart>>
       ELSE LET data == extracted[w].times
                e == ChartFindExtremeIndices(data)
            IN  /\ chart' = [ran |-> TRUE, ws |-> w, data |-> data,
                             min_indices |-> e.min_indices,
                             max_indices |-> e.max_indices]
                /\ store' = IF data = <<>> THEN store
                            ELSE ChartSaveImportantIndices(store, w, e.min_indices,
                                                           e.max_indices)
    /\ UNCHANGED <<extracted, box, fileVars>>

\* generate_charts(): the store is truncated first, then the workstation's
\* json is loaded and its one series goes through create_chart.
GenerateCharts(w) ==
    /\ IF ~extracted[w].present
       THEN /\ store' = <<>>
            /\ UNCHANGED chart
       ELSE LET data == extracted[w].times
                e == ChartFindExtremeIndices(data)
            IN  /\ chart' = [ran |-> TRUE, ws |-> w, data |-> data,
                             min_indices |-> e.min_indices,
                             max_indices |-> e.max_indices]
                /\ store' = IF data = <<>> THEN <<>>
                            ELSE ChartSaveImportantIndices(<<>>, w, e.min_indices,
                                                           e.max_indices)
    /\ UNCHANGED <<extracted, box, fileVars>>

(***************************************************************************)
(* The statistics stages run on any extracted series.                      *)
(***************************************************************************)
NoConfig == [exists |-> FALSE, keys |-> <<>>, missing |-> {}, sameDir |-> FALSE]
NoRun == [phase |-> "idle", ws |-> 0, script |-> 0, signal |-> "none"]
NoOrdinal == [called |-> FALSE, arg |-> 0, out |-> OrdinalOfInt(0)]
NoPass == [todo |-> <<>>, written |-> <<>>]
NoPasses == [w \in Workstations |-> NoPass]
NoFaults == [ws |-> "", folders |-> {}, files |-> {}, sources |-> {}]
SideIdle ==
    /\ ordinal = NoOrdinal /\ passes = NoPasses /\ saved_indices = {}
    /\ faults = NoFaults
ThreadIdle == info = NoConfig /\ run = NoRun /\ ops = <<>> /\ SideIdle

NoTrees == [w \in Workstations |-> <<>>]
NoJson == [w \in Workstations |-> Absent]

FilesIdle ==
    /\ raw = NoTrees /\ ext = NoExt /\ merged = NoJson
    /\ sortLogs = NoOutput /\ cls = NoCls
    /\ tables = NoTables /\ cmp = NoCmp

\* two longer series with a far outlier and with repeated extremes
ExampleSeries ==
    {<<Seconds(1), Seconds(2), Seconds(3), Seconds(4), Seconds(100)>>,
     <<Seconds(2), Seconds(2), Seconds(5), Seconds(5), Seconds(2)>>}

StatsInit ==
    /\ FilesIdle
    /\ \E s \in AllSeries \cup ExampleSeries :
         extracted = [w \in Workstations |->
                        IF w = "WS-1" THEN Present(s) ELSE Absent]
    /\ store = <<>>
    /\ chart = NoChart
    /\ box = NoBox
    /\ ThreadIdle

\* the store is kept within MaxStore lines
StatsNext ==
    /\ \E w \in Workstations :
          GenerateCharts(w) \/ (Len(store) <= MaxStore /\ GenerateBoxplots(w))
    /\ UNCHANGED <<threadVars, sideVars>>

SpecStats == StatsInit /\ [][StatsNext]_vars

(***************************************************************************)
(* The Extractor runs on any raw tree of cycle-time records.               *)
(***************************************************************************)
RecordNames == Tokens \cup {NoMatch}
GoodRows == {Filled(NumCell(n)) : n \in {1, 2}}
OddRows == {Filled(EmptyCell), Filled(TextCell), ShortRows, OneColRows, NoRows}

\* every name with a numeric record, two names with every odd record, a log
RecordFiles ==
    [dir : {NoMatch}, nameTs : RecordNames, kind : {CycleKind}, rows : GoodRows]
    \cup [dir : {NoMatch}, nameTs : {<<1, 0>>, <<1, 1>>}, kind : {CycleKind},
          rows : OddRows]
    \cup [dir : {NoMatch}, nameTs : {<<1, 0>>}, kind : {LogKind}, rows : {NoRows}]

Distinct(seq) == \A i, j \in 1..Len(seq) : i # j => seq[i] # seq[j]

TreesOver(files) ==
    {t \in UNION {[1..n -> files] : n \in 0..MaxFiles} : Distinct(t)}

ExtractInit ==
    /\ \E t \in TreesOver(RecordFiles) :
         raw = [w \in Workstations |-> IF w = "WS-1" THEN t ELSE <<>>]
    /\ ext = NoExt
    /\ extracted = NoJson
    /\ merged = NoJson
    /\ sortLogs = NoOutput
    /\ cls = NoCls
    /\ tables = NoTables
    /\ cmp = NoCmp
    /\ store = <<>>
    /\ chart = NoChart
    /\ box = NoBox
    /\ ThreadIdle

ExtractNext == (\E w \in Workstations : Extract(w)) /\ UNCHANGED <<threadVars, sideVars>>

SpecExtract == ExtractInit /\ [][ExtractNext]_vars

(***************************************************************************)
(* main_controller.py : ScriptRunnerThread                                 *)
(***************************************************************************)
\* a slip that would list the line chart before the extraction
ChartFirst == <<"lineChart.py", "getCycleTime.py", "boxPlot.py",
                "sortCycletime.py", "compare_min_max.py", "forExcel.py">>

\* self.scripts, in the order of the list
Scripts == <<"getCycleTime.py", "lineChart.py", "boxPlot.py",
             "sortCycletime.py", "compare_min_max.py", "forExcel.py">>

\* forExcel.py gathers the comparison tables into one workbook; it reads and
\* writes nothing that is kept here
ForExcel ==
    UNCHANGED <<raw, ext, extracted, merged, sortLogs, cls, tables, cmp,
                store, chart, box>>

\* subprocess.run([sys.executable, script_path], env=...) returning 0
RunScriptForWorkstation(script_name, workstation_name) ==
    CASE script_name = "getCycleTime.py" -> Extract(workstation_name)
      [] script_name = "lineChart.py" -> GenerateCharts(workstation_name)
      [] script_name = "boxPlot.py" -> GenerateBoxplots(workstation_name)
      [] script_name = "sortCycletime.py" -> Sort(workstation_name)
      [] script_name = "compare_min_max.py" -> Compare
      [] script_name = "forExcel.py" -> ForExcel

\* a slip that would report the end of the run as a success
FinishedAnyway(message) ==
    [phase |-> "done", ws |-> 0, script |-> 0, signal |-> "finished"]

\* self.error.emit(message); return
Failed(message) ==
    [phase |-> "error", ws |-> 0, script |-> 0, signal |-> message]

\* the head of the loop over ws_keys: the folder check of workstation i
EnterWorkstation(i) ==
    IF i > Len(info.keys)
    THEN [phase |-> "done", ws |-> 0, script |-> 0, signal |-> "finished"]
    ELSE IF info.keys[i] \in info.missing THEN Failed("no folder")
    ELSE [phase |-> "running", ws |-> i, script |-> 1, signal |-> "none"]

\* run() up to the first script: extracted_data under the working directory
\* is removed (the scripts write theirs under the script directory), then
\* info.json is read
Start ==
    /\ run.phase # "running"
    /\ IF info.sameDir
       THEN extracted' = NoJson /\ merged' = NoJson
       ELSE UNCHANGED <<extracted, merged>>
    /\ run' = IF ~info.exists THEN Failed("no info.json")
              ELSE IF info.keys = <<>> THEN Failed("no workstation")
              ELSE EnterWorkstation(1)
    /\ ops' = <<>>
    /\ UNCHANGED <<raw, ext, sortLogs, cls, tables, cmp, store, chart, box, info>>
    /\ UNCHANGED sideVars

\* one pass of the inner loop whose script exits with code 0
RunScript ==
    /\ run.phase = "running"
    /\ RunScriptForWorkstation(Scripts[run.script], info.keys[run.ws])
    /\ run' = IF run.script < Len(Scripts)
              THEN [run EXCEPT !.script = @ + 1]
              ELSE EnterWorkstation(run.ws + 1)
    /\ ops' = ops
              \o (IF Scripts[run.script] = "lineChart.py"
                  THEN <<"truncate">> ELSE <<>>)
              \o (IF \/ Scripts[run.script] = "lineChart.py" /\ store' # <<>>
                     \/ Scripts[run.script] = "boxPlot.py"
                          /\ Len(store') > Len(store)
                  THEN <<"append">> ELSE <<>>)
    /\ UNCHANGED <<info, sideVars>>

\* a script that exits with another code, times out or cannot be started
ScriptFails ==
    /\ run.phase = "running"
    /\ run' = Failed("script failed")
    /\ UNCHANGED <<raw, ext, extracted, merged, sortLogs, cls, tables, cmp,
                   store, chart, box, info, ops, sideVars>>

TwoStations(same) ==
    [exists |-> TRUE, keys |-> <<"WS-1", "WS-2">>, missing |-> {},
     sameDir |-> same]
BrokenConfigs ==
    {NoConfig,
     [exists |-> TRUE, keys |-> <<>>, missing |-> {}, sameDir |-> TRUE],
     [exists |-> TRUE, keys |-> <<"WS-1", "WS-2">>, missing |-> {"WS-2"},
      sameDir |-> TRUE]}

\* the trees of a full run: named and folder-stamped records, a record with
\* a text cell, two records of one timestamp, a record without any stamp
Rec(dir, nameTs, kind, rows) ==
    [dir |-> dir, nameTs |-> nameTs, kind |-> kind, rows |-> rows]
RunFiles ==
    {Rec(NoMatch, <<1, 0>>, CycleKind, Filled(NumCell(1))),
     Rec(NoMatch, <<1, 1>>, CycleKind, Filled(NumCell(2))),
     Rec(NoMatch, <<1, 1>>, CycleKind, Filled(TextCell)),
     Rec(NoMatch, <<2, 0>>, CycleKind, Filled(NumCell(1))),
     Rec(<<2, 0>>, <<1, 0>>, CycleKind, Filled(NumCell(2))),
     Rec(<<2, 0>>, NoMatch, CycleKind, Filled(NumCell(1))),
     Rec(<<1, 1>>, NoMatch, LogKind, NoRows),
     Rec(NoMatch, NoMatch, CycleKind, Filled(NumCell(2)))}
OneFile == <<Rec(NoMatch, <<1, 0>>, CycleKind, Filled(NumCell(1)))>>

Init ==
    /\ \/ /\ info \in {TwoStations(TRUE), TwoStations(FALSE)}
          /\ \E t \in TreesOver(RunFiles), u \in {<<>>, OneFile} :
               raw = [w \in Workstations |->
                        IF w = "WS-1" THEN t ELSE IF w = "WS-2" THEN u ELSE <<>>]
       \/ /\ info \in BrokenConfigs
          /\ raw = [w \in Workstations |->
                      IF w = "WS:3" THEN <<>> ELSE OneFile]
    /\ ext = NoExt
    /\ extracted = NoJson
    /\ merged = NoJson
    /\ sortLogs = NoOutput
    /\ cls = NoCls
    /\ tables = NoTables
    /\ cmp = NoCmp
    /\ store = <<>>
    /\ chart = NoChart
    /\ box = NoBox
    /\ run = NoRun
    /\ ops = <<>>
    /\ SideIdle

Next == Start \/ RunScript \/ ScriptFails

Spec == Init /\ [][Next]_vars

(***************************************************************************)
(* The stages run one by one, as scripts, on a store that may have been    *)
(* written by hand or by the statistics stages of any workstation.         *)
(***************************************************************************)
MaxHand == 2

HandLines ==
    {<<"WS-1", "min", "1">>, <<"WS-1", "max", "2">>,
     <<"WS-1", "abnormal", "2">>, <<"WS-1", "median", "3">>,
     <<"WS-1", "MIN", "3">>, <<"bad_line">>, <<"WS-1", "min", "abc">>,
     <<"WS-1", "min", "1", "2">>, <<"WS-2", "min", "1">>,
     <<" WS-2", "max", "1">>}
HandStores == UNION {[1..n -> HandLines] : n \in 0..MaxHand}

StoreTree ==
    <<Rec(NoMatch, <<1, 0>>, CycleKind, Filled(NumCell(1))),
      Rec(NoMatch, <<1, 1>>, CycleKind, Filled(NumCell(2))),
      Rec(<<1, 1>>, NoMatch, LogKind, NoRows),
      Rec(NoMatch, <<2, 0>>, CycleKind, Filled(NumCell(1)))>>
\* two records of one name, one in the root and one in a stamped folder
SameNameTree ==
    <<Rec(NoMatch, <<1, 0>>, CycleKind, Filled(NumCell(1))),
      Rec(<<2, 0>>, <<1, 0>>, CycleKind, Filled(NumCell(2)))>>
StoreSeries ==
    {<<Seconds(2), Seconds(1), Seconds(1)>>,
     <<Seconds(1), Seconds(1), Seconds(1), Seconds(3)>>}

StoreInit ==
    /\ raw = [w \in Workstations |->
                IF w = "WS-1" THEN StoreTree
                ELSE IF w = "WS-2" THEN SameNameTree ELSE <<>>]
    /\ \/ store \in HandStores /\ extracted = NoJson
       \/ /\ store = <<>>
          /\ \E v \in {"WS-1", "WS:3"}, data \in StoreSeries :
               extracted = [w \in Workstations |->
                              IF w = v THEN Present(data) ELSE Absent]
    /\ ext = NoExt
    /\ merged = NoJson
    /\ sortLogs = NoOutput
    /\ cls = NoCls
    /\ tables = NoTables
    /\ cmp = NoCmp
    /\ chart = NoChart
    /\ box = NoBox
    /\ ThreadIdle

StoreNext ==
    /\ \/ \E w \in Workstations :
            \/ GenerateCharts(w)
            \/ Len(store) <= MaxStore /\ GenerateBoxplots(w)
       \/ \E w \in {"WS-1", "WS-2"} : Sort(w)
       \/ Compare
    /\ UNCHANGED <<threadVars, sideVars>>

SpecStore == StoreInit /\ [][StoreNext]_vars

(***************************************************************************)
(* The Classifier and the Comparator on cycle-time records with stage rows *)
(* of several shapes, under hand-written and stage-written tag orders.     *)
(***************************************************************************)
MaxTags == 3

\* a value given in ten-thousandths of a second plus extra/Unit seconds
Decimal(n, extra) == [t |-> "num", f |-> FNum((Unit \div 10000) * n + extra)]

StageRow(stage, cell) == <<StageCell(stage), cell>>

\* stage2 = 10.0
FirstRecord ==
    <<HeaderRow, StageRow("stage2", Decimal(100000, 0)),
      StageRow("stage3", Decimal(10000, 0))>>
\* stage2 = 11.2345, stage3 = 2.0000625
SecondRecord ==
    <<HeaderRow, StageRow("stage2", Decimal(112345, 0)),
      StageRow("stage3", Decimal(20000, 5))>>
\* stage2 twice, the second time with a text; stage3 with an empty value;
\* stage3 again with 3.0000375; a stage of its own and no header row
ThirdRecord ==
    <<StageRow("stage2", Decimal(120000, 0)), StageRow("stage2", TextCell),
      StageRow("stage3", EmptyCell), StageRow("stage3", Decimal(30000, 3)),
      StageRow("Boot", Decimal(10000, 0)), <<StageCell("stage4")>>>>
\* stage2 twice with numbers
PlainRecord ==
    <<HeaderRow, StageRow("stage2", Decimal(10000, 0)),
      StageRow("stage2", Decimal(130000, 0)),
      StageRow("stage3", Decimal(40000, 0))>>

ShortTree ==
    <<Rec(NoMatch, <<1, 0>>, CycleKind, FirstRecord),
      Rec(NoMatch, <<1, 1>>, CycleKind, SecondRecord),
      Rec(NoMatch, <<1, 2>>, CycleKind, ThirdRecord)>>
LongTree ==
    ShortTree \o [n \in 1..7 |-> Rec(NoMatch, <<1, n + 2>>, CycleKind, PlainRecord)]

TagLines ==
    {<<"WS-1", "min", "1">>, <<"WS-1", "min", "3">>, <<"WS-1", "max", "2">>,
     <<"WS-1", "max", "3">>, <<"WS-1", "max", "10">>,
     <<"WS-1", "abnormal", "2">>, <<"WS-1", "abnormal", "3">>}
TagStores == UNION {[1..n -> TagLines] : n \in 0..MaxTags}

CompareInit ==
    /\ \E t \in {ShortTree, LongTree} :
          raw = [w \in Workstations |-> IF w = "WS-1" THEN t ELSE <<>>]
    /\ store \in TagStores
    /\ extracted = NoJson
    /\ ext = NoExt
    /\ merged = NoJson
    /\ sortLogs = NoOutput
    /\ cls = NoCls
    /\ tables = NoTables
    /\ cmp = NoCmp
    /\ chart = NoChart
    /\ box = NoBox
    /\ ThreadIdle

CompareNext ==
    /\ Sort("WS-1") \/ Compare
    /\ UNCHANGED <<threadVars, sideVars>>

SpecCompare == CompareInit /\ [][CompareNext]_vars

(***************************************************************************)
(* Claims on the statistics stages (checked under SpecStats).              *)
(***************************************************************************)
StrictlyBelow(a, b) == a.k = "num" /\ b.k = "num" /\ a.v < b.v

OutsideBounds(val, st) ==
    StrictlyBelow(val, st.lower_bound) \/ StrictlyBelow(st.upper_bound, val)

\* C9: the boxplot stage's find_extreme_indices reports exactly the samples
\* strictly below lower_bound or strictly above upper_bound, as
\* (1-based index, value) pairs in iteration order; a value equal to a bound
\* is never reported.
C9_OutliersExact ==
    box.ran =>
        LET d == box.data
            o == box.outliers
        IN  /\ \A j \in 1..Len(o) :
                  /\ o[j].idx \in 1..Len(d)
                  /\ o[j].val = d[o[j].idx]
                  /\ OutsideBounds(o[j].val, box.stats)
                  /\ o[j].val # box.stats.lower_bound
                  /\ o[j].val # box.stats.upper_bound
            /\ \A i \in 1..Len(d) :
                  OutsideBounds(d[i], box.stats) => \E j \in 1..Len(o) : o[j].idx = i
            /\ \A j, k \in 1..Len(o) : j < k => o[j].idx < o[k].idx

\* a series with an outlier and with a sample lying exactly on a bound
C9_Witness ==
    /\ box.ran
    /\ box.outliers # <<>>
    /\ \E i \in 1..Len(box.data) : box.data[i] = box.stats.upper_bound

Dist(i) == FAbsDiff(box.data[i], box.stats.median)

\* C10: for a non-empty series find_median_index returns an index within
\* 1..N at which |value - median| is minimal, and the first such index: no
\* sample is strictly closer to the median and every earlier sample is
\* strictly farther from it.
C10_MedianIndexFirstClosest ==
    (box.ran /\ box.data # <<>>) =>
        LET i == box.median_index
        IN  /\ i \in 1..Len(box.data)
            /\ \A j \in 1..Len(box.data) : ~FLt(Dist(j), Dist(i))
            /\ \A j \in 1..(i - 1) : FLt(Dist(i), Dist(j))

\* a series in which two samples tie for the closest and the first one,
\* which is not sample 1, is returned
C10_Witness ==
    /\ box.ran
    /\ box.median_index > 1
    /\ \E j \in (box.median_index + 1)..Len(box.data) :
         Dist(j) = Dist(box.median_index)

(***************************************************************************)
(* Claims on the Extractor (checked under SpecExtract).                    *)
(***************************************************************************)
Records(w) == {i \in 1..Len(raw[w]) : raw[w][i].kind = CycleKind}

NameParses(f) == f.nameTs \in ValidTokens

\* the cell at row 7, column 1 exists and holds a number
CellIsNumber(f) ==
    /\ Len(f.rows) >= 8
    /\ Len(f.rows[8]) >= 2
    /\ f.rows[8][2].t = "num"

CellValue(f) == f.rows[8][2].f

Earlier(a, b) == a[1] < b[1] \/ (a[1] = b[1] /\ a[2] < b[2])

\* 1 + the number of records of the tree with an earlier timestamp
RankIn(w, S, i) ==
    1 + Cardinality({j \in S : Earlier(raw[w][j].nameTs, raw[w][i].nameTs)})

AllParseDistinct(w) ==
    /\ \A i \in Records(w) : NameParses(raw[w][i]) /\ CellIsNumber(raw[w][i])
    /\ \A i, j \in Records(w) : i # j => raw[w][i].nameTs # raw[w][j].nameTs

\* C3: for N cycle-time records with pairwise distinct parseable timestamps
\* and parseable duration cells, process_workstation_folder returns exactly
\* N samples, and sample k is the duration of the record of rank k in
\* ascending timestamp order.
C3_ExtractorRankOrder ==
    \A w \in Workstations :
        (ext.ran /\ ext.ws = w /\ AllParseDistinct(w)) =>
            /\ Len(ext.times) = Cardinality(Records(w))
            /\ \A i \in Records(w) :
                  ext.times[RankIn(w, Records(w), i)] = CellValue(raw[w][i])

\* three such records, listed in an order that is not the timestamp order
C3_Witness ==
    /\ ext.ran /\ ext.ws = "WS-1" /\ AllParseDistinct("WS-1")
    /\ Cardinality(Records("WS-1")) = 3
    /\ Earlier(raw["WS-1"][3].nameTs, raw["WS-1"][1].nameTs)
    /\ ext.times[1] # ext.times[3]

GoodRecords(w) ==
    {i \in Records(w) : NameParses(raw[w][i]) /\ CellIsNumber(raw[w][i])}

\* C4: a record without a parseable timestamp in its name, or whose cell at
\* row 7 / column 1 is missing, empty or not a number, contributes no
\* sample; the samples of the remaining records come in timestamp order.
C4_BadRecordsDropped ==
    \A w \in Workstations :
        (ext.ran /\ ext.ws = w) =>
            /\ Len(ext.times) = Cardinality(GoodRecords(w))
            /\ \A i \in GoodRecords(w) :
                  \E k \in 1..Len(ext.times) :
                      /\ ext.times[k] = CellValue(raw[w][i])
                      /\ k >= RankIn(w, GoodRecords(w), i)

(***************************************************************************)
(* Claims on a full run (checked under Spec).                              *)
(***************************************************************************)
\* C1: the index the Classifier gives the group of timestamp T is the
\* position the Extractor gives the sample of the record with timestamp T:
\* sample p of a workstation comes from the group numbered p.
C1_IndexCoherence ==
    \A w \in Workstations :
        (ext.ran /\ ext.ws = w /\ cls.ran /\ cls.ws = w) =>
            \A p \in 1..Len(ext.stamps) :
                p <= Len(cls.keys) /\ cls.keys[p] = ext.stamps[p]

Count(seq, x) == Cardinality({i \in 1..Len(seq) : seq[i] = x})

\* the line-chart stages the current run has completed
ChartsDone ==
    IF run.phase = "done" THEN Len(info.keys)
    ELSE (run.ws - 1) + (IF run.script > 2 THEN 1 ELSE 0)

LineWs(line) == IF Len(line) >= 3 THEN Strip(line[1]) ELSE ""

\* C2 as stated: a full run truncates the store exactly once, and never
\* after a tag of that run has been appended.
C2_TruncatedOnce ==
    run.phase = "done" =>
        /\ Count(ops, "truncate") = 1
        /\ \A i, j \in 1..Len(ops) :
              (i < j /\ ops[i] = "append") => ops[j] # "truncate"

\* C2, amended: the store is truncated once per workstation pass, by that
\* pass's line-chart stage and before the pass appends anything; from then
\* to the end of the pass the store holds tags of that workstation only.
C2_TruncatedPerWorkstation ==
    run.phase \in {"running", "done"} =>
        /\ Count(ops, "truncate") = ChartsDone
        /\ ops # <<>> => ops[1] = "truncate"
        /\ (run.phase = "running" /\ run.script > 2) =>
              \A k \in 1..Len(store) : LineWs(store[k]) = info.keys[run.ws]

\* a finished run over two workstations that both produced tags
C2_Witness ==
    /\ run.phase = "done"
    /\ ops = <<"truncate", "append", "append", "truncate", "append", "append">>

GroupRecords(w, ts) ==
    {raw[w][k] : k \in {n \in 1..Len(raw[w]) :
        /\ IsCycleFile(raw[w][n])
        /\ ExtractTimestampIdentifier(raw[w][n]) = ts}}

TagsOf(w, role) ==
    IF w \in DOMAIN cmp.indices.roles THEN cmp.indices.roles[w][role] ELSE <<>>

\* the Comparator has just run for the workstation the Classifier ran for
AfterCompare == run.phase = "running" /\ run.script = Len(Scripts)

\* C8: once the Classifier and then the Comparator have run for W, every
\* index tagged min, max or abnormal for W whose group holds a cycle-time
\* record was resolved by find_cycle_file to a copy of a record of that group.
C8_ResolvesOwnGroup ==
    AfterCompare =>
        LET w == info.keys[run.ws]
        IN  \A role \in {"min", "max", "abnormal"} :
              \A k \in 1..Len(TagsOf(w, role)) :
                LET v == TagsOf(w, role)[k]
                    i == IntOf(v)
                IN  (IntOk(v) /\ i <= Len(cls.keys)
                        /\ GroupRecords(w, cls.keys[i]) # {}) =>
                      \E j \in 1..Len(cmp.found) :
                        /\ cmp.found[j].ws = w
                        /\ cmp.found[j].role = role
                        /\ cmp.found[j].index = v
                        /\ cmp.found[j].file.src \in GroupRecords(w, cls.keys[i])

\* the second group holds two records and is tagged; one of them is found
C8_Witness ==
    /\ AfterCompare /\ info.keys[run.ws] = "WS-1" /\ Len(cls.keys) >= 2
    /\ Cardinality(GroupRecords("WS-1", cls.keys[2])) = 2
    /\ \E j \in 1..Len(cmp.found) : cmp.found[j].index = <<"2">>

(***************************************************************************)
(* Claims on the index store (checked under SpecStore).                    *)
(***************************************************************************)
WellFormedLine(line) == Len(line) >= 3 /\ IntOk(ValueField(line))
WellFormed(lines) == SelectSeq(lines, WellFormedLine)

\* C5: a line with fewer than 3 fields or a non-integer index adds nothing
\* to the Classifier's or the Comparator's mapping, and the stage still
\* completes for every workstation of the store.
C5_MalformedNeverFatal ==
    /\ cls.ran =>
          cls.marks = MarksFor(LoadImportantIndices(WellFormed(cls.lines)), cls.ws)
    /\ cmp.ran =>
          /\ ~cmp.crashed
          /\ cmp.indices = ParseIndexFile(WellFormed(cmp.lines))
          /\ cmp.visited = cmp.indices.order

ReadBack(w, role) ==
    [k \in 1..Len(TagsOf(w, role)) |->
        IF IntOk(TagsOf(w, role)[k]) THEN IntOf(TagsOf(w, role)[k]) ELSE 0]

ChartLines ==
    ChartSaveImportantIndices(<<>>, chart.ws, chart.min_indices, chart.max_indices)
BoxLines ==
    BoxSaveImportantIndices(<<>>, {}, box.ws, box.median_index,
                            [j \in 1..Len(box.outliers) |-> box.outliers[j].idx]).lines
OutlierIndices == [j \in 1..Len(box.outliers) |-> box.outliers[j].idx]

\* C6: the tags the statistics stages appended for a workstation, of any
\* identifier, are read back by parse_index_file as exactly the appended
\* indices per role, in append order, and for no other workstation.
C6_RoundTrip ==
    /\ (cmp.ran /\ chart.ran /\ chart.data # <<>> /\ cmp.lines = ChartLines) =>
          /\ ReadBack(chart.ws, "min") = chart.min_indices
          /\ ReadBack(chart.ws, "max") = chart.max_indices
          /\ ReadBack(chart.ws, "abnormal") = <<>>
          /\ DOMAIN cmp.indices.roles = {chart.ws}
    /\ (cmp.ran /\ chart.ran /\ chart.data # <<>> /\ box.ran
          /\ box.ws = chart.ws /\ box.data # <<>>
          /\ cmp.lines = ChartLines \o BoxLines) =>
          /\ ReadBack(chart.ws, "min") = chart.min_indices
          /\ ReadBack(chart.ws, "max") = chart.max_indices
          /\ ReadBack(chart.ws, "abnormal") = OutlierIndices
          /\ DOMAIN cmp.indices.roles = {chart.ws}

KnownRoles == {"min", "max", "abnormal"}

FolderMarks(folder) == {folder.marks[k] : k \in 1..Len(folder.marks)}

\* C7 as stated: the consumers' mappings and the Classifier's folder names
\* carry only the roles min, max and abnormal, and lines of any other role
\* leave the mappings as they would be without them.
C7_OnlyKnownRoles ==
    /\ cls.ran =>
          /\ \A idx \in DOMAIN cls.marks :
                \A k \in 1..Len(cls.marks[idx]) : cls.marks[idx][k] \in KnownRoles
          /\ \A folder \in sortLogs[cls.ws].folders :
                FolderMarks(folder) \subseteq KnownRoles
    /\ cmp.ran =>
          cmp.indices =
            ParseIndexFile(SelectSeq(cmp.lines,
                LAMBDA line : Len(line) >= 3 =>
                                 Lower(Strip(line[2])) \in KnownRoles))

RolesOf(lines, ws, idx) ==
    LET tagged == SelectSeq(lines, LAMBDA line :
                      /\ WellFormedLine(line)
                      /\ Strip(line[1]) = ws
                      /\ IntOf(ValueField(line)) = idx)
    IN  [k \in 1..Len(tagged) |-> Lower(Strip(tagged[k][2]))]

ValuesOf(lines, ws, role) ==
    LET tagged == SelectSeq(lines, LAMBDA line :
                      /\ Len(line) >= 3
                      /\ Strip(line[1]) = ws
                      /\ Lower(Strip(line[2])) = role)
    IN  [k \in 1..Len(tagged) |-> ValueField(tagged[k])]

\* C7, amended: the Comparator's lists hold the indices of the min, max and
\* abnormal lines only (a line of another role at most makes its
\* workstation known, with empty lists); the Classifier keeps every role of
\* every line with an integer index, lowercased and in line order, and the
\* folder of a tagged group is named after all of them, median included.
C7_ClassifierKeepsEveryRole ==
    /\ cls.ran =>
          \A idx \in 1..Len(Numerals) :
            LET roles == RolesOf(cls.lines, cls.ws, idx)
            IN  IF roles = <<>> THEN idx \notin DOMAIN cls.marks
                ELSE /\ idx \in DOMAIN cls.marks
                     /\ cls.marks[idx] = roles
                     /\ idx <= Len(cls.keys) =>
                          \E folder \in sortLogs[cls.ws].folders :
                            /\ folder.index = idx
                            /\ folder.ts = cls.keys[idx]
                            /\ FolderMarks(folder) =
                                 {roles[k] : k \in 1..Len(roles)}
    /\ cmp.ran =>
          \A ws \in DOMAIN cmp.indices.roles :
            \A role \in KnownRoles :
              cmp.indices.roles[ws][role] = ValuesOf(cmp.lines, ws, role)

\* the boxplot stage tagged a sample as the median, the Classifier named
\* that group's folder after it, and the Comparator read the same store
C7_Witness ==
    /\ cls.ran /\ cls.ws = "WS-1" /\ box.ran /\ box.ws = "WS-1"
    /\ box.median_index \in DOMAIN cls.marks
    /\ \E folder \in sortLogs["WS-1"].folders :
          folder.index = box.median_index /\ "median" \in FolderMarks(folder)
    /\ cmp.ran /\ cmp.lines = cls.lines /\ cmp.found # <<>>

(***************************************************************************)
(* Further claims on the statistics stages (checked under SpecStats).      *)
(***************************************************************************)
NoSmaller(d, i) == \A j \in 1..Len(d) : d[j].k = "num" /\ d[j].v >= d[i].v
NoLarger(d, i) == \A j \in 1..Len(d) : d[j].k = "num" /\ d[j].v <= d[i].v

Ascending(idx) == \A j, k \in 1..Len(idx) : j < k => idx[j] < idx[k]
Members(idx) == {idx[j] : j \in 1..Len(idx)}

\* C11: for a non-empty series the chart stage's find_extreme_indices gives
\* as min_indices every 1-based index holding the series minimum and as
\* max_indices every index holding the maximum, each ascending, and
\* neither list is empty.
C11_AllExtremeIndices ==
    (chart.ran /\ chart.data # <<>>) =>
        LET d == chart.data
        IN  /\ chart.min_indices # <<>> /\ chart.max_indices # <<>>
            /\ Ascending(chart.min_indices) /\ Ascending(chart.max_indices)
            /\ Members(chart.min_indices) = {i \in 1..Len(d) : NoSmaller(d, i)}
            /\ Members(chart.max_indices) = {i \in 1..Len(d) : NoLarger(d, i)}

FLe(a, b) == a.k = "num" /\ b.k = "num" /\ a.v <= b.v

\* the k-th smallest sample of a series of numbers
Kth(d, k) ==
    CHOOSE v \in {d[i].v : i \in 1..Len(d)} :
        /\ Cardinality({i \in 1..Len(d) : d[i].v < v}) < k
        /\ Cardinality({i \in 1..Len(d) : d[i].v <= v}) >= k

\* x is the q-th quarter point of d by linear interpolation: with
\* q * (N - 1) = 4 * lo + r, it lies r quarters of the way from the
\* (lo + 1)-th to the (lo + 2)-th smallest sample
IsQuartile(x, d, q) ==
    LET lo == (q * (Len(d) - 1)) \div 4
        r == (q * (Len(d) - 1)) % 4
    IN  /\ x.k = "num"
        /\ \A i \in 1..Len(d) : d[i].k = "num"
        /\ 4 * x.v = (4 - r) * Kth(d, lo + 1)
                       + (IF r = 0 THEN 0 ELSE r * Kth(d, lo + 2))

FarOutlierSeries ==
    <<Seconds(1), Seconds(2), Seconds(3), Seconds(4), Seconds(100)>>

\* C12: for a non-empty series calculate_statistics gives q1 and q3 as the
\* linear-interpolation 25th and 75th percentiles, iqr = q3 - q1,
\* lower_bound = q1 - 1.5 iqr, upper_bound = q3 + 1.5 iqr, ordered
\* lower_bound <= q1 <= median <= q3 <= upper_bound; [1,2,3,4,100] gives
\* q1 2, q3 4, iqr 2, bounds -1 and 7, and the one outlier (5, 100).
C12_QuartilesAndBounds ==
    (box.ran /\ box.data # <<>>) =>
        LET st == box.stats
        IN  /\ IsQuartile(st.q1, box.data, 1)
            /\ IsQuartile(st.q3, box.data, 3)
            /\ st.iqr.k = "num" /\ st.iqr.v = st.q3.v - st.q1.v
            /\ st.lower_bound.k = "num"
            /\ 2 * st.lower_bound.v = 2 * st.q1.v - 3 * st.iqr.v
            /\ st.upper_bound.k = "num"
            /\ 2 * st.upper_bound.v = 2 * st.q3.v + 3 * st.iqr.v
            /\ FLe(st.lower_bound, st.q1) /\ FLe(st.q1, st.median)
            /\ FLe(st.median, st.q3) /\ FLe(st.q3, st.upper_bound)
            /\ box.data = FarOutlierSeries =>
                  /\ st.q1 = Seconds(2) /\ st.q3 = Seconds(4)
                  /\ st.iqr = Seconds(2)
                  /\ st.lower_bound = FNum(0 - Unit)
                  /\ st.upper_bound = Seconds(7)
                  /\ box.outliers = <<[idx |-> 5, val |-> Seconds(100)]>>

TagsFor(ws) == {k \in 1..Len(store) : LineWs(store[k]) = ws}

\* C13: on an empty series the chart stage and the boxplot stage finish
\* with an empty result (no extreme index, no statistics, no outlier, no
\* median index) and the store holds no tag of that workstation.
C13_EmptySeriesNoTag ==
    /\ (chart.ran /\ chart.data = <<>>) =>
          /\ chart.min_indices = <<>> /\ chart.max_indices = <<>>
          /\ (extracted[chart.ws] = Present(<<>>) => TagsFor(chart.ws) = {})
    /\ (box.ran /\ box.data = <<>>) =>
          /\ box.stats.empty /\ box.outliers = <<>> /\ box.median_index = 0
          /\ (extracted[box.ws] = Present(<<>>) => TagsFor(box.ws) = {})

\* both stages have run on the empty series of WS-1
C13_Witness ==
    /\ extracted["WS-1"] = Present(<<>>)
    /\ chart.ran /\ chart.ws = "WS-1" /\ chart.data = <<>>
    /\ box.ran /\ box.ws = "WS-1" /\ box.data = <<>>

(***************************************************************************)
(* Further claims on the Classifier's output tree.                         *)
(***************************************************************************)
\* the files of the timestamp group the Classifier numbered i
GroupFiles(w, i) ==
    {raw[w][k] : k \in {n \in 1..Len(raw[w]) :
        /\ IsCycleFile(raw[w][n]) \/ IsLogFile(raw[w][n])
        /\ ExtractTimestampIdentifier(raw[w][n]) = cls.keys[i]}}

NonDecreasing(marks) ==
    \A j, k \in 1..Len(marks) : j < k => MarkRank(marks[j]) <= MarkRank(marks[k])

SameMarks(a, b) ==
    Len(a) = Len(b) /\ \A k \in 1..Len(a) : Count(a, a[k]) = Count(b, a[k])

\* the folder is the one the claim names for group i
NamedFor(folder, i) ==
    /\ folder.index = i
    /\ folder.ts = cls.keys[i]
    /\ NonDecreasing(folder.marks)
    /\ SameMarks(folder.marks, cls.marks[i])

HoldsCopyOf(w, folder, f) ==
    \E e \in sortLogs[w].files : e.dir = folder /\ e.src = f

\* C14: after a Classifier run, every timestamp group whose index has roles
\* has exactly one subfolder, named index_roles-in-order_timestamp, and that
\* subfolder holds a copy of every file of the group.
C14_FolderHoldsWholeGroup ==
    cls.ran =>
      \A i \in 1..Len(cls.keys) :
        i \in DOMAIN cls.marks =>
          LET own == {d \in sortLogs[cls.ws].folders : d.index = i}
          IN  /\ Cardinality(own) = 1
              /\ \A d \in own :
                   /\ NamedFor(d, i)
                   /\ \A f \in GroupFiles(cls.ws, i) : HoldsCopyOf(cls.ws, d, f)

\* C15: after a Classifier run, a timestamp group whose index has no role
\* has no subfolder; each of its .csv files is in the output root as
\* index_timestamp_original-name, and nothing else of the group is anywhere
\* in the output tree.
C15_PlainGroupCsvOnly ==
    cls.ran =>
      \A i \in 1..Len(cls.keys) :
        i \notin DOMAIN cls.marks =>
          /\ \A d \in sortLogs[cls.ws].folders : d.index # i
          /\ \A f \in GroupFiles(cls.ws, i) :
               IsCsv(f) =>
                 \E e \in sortLogs[cls.ws].files :
                    /\ e.dir = RootDir
                    /\ e.name = PlainName(i, cls.keys[i], f)
                    /\ e.src = f
          /\ \A e \in sortLogs[cls.ws].files :
               e.src \in GroupFiles(cls.ws, i) =>
                 /\ IsCsv(e.src)
                 /\ e.dir = RootDir
                 /\ e.name = PlainName(i, cls.keys[i], e.src)

\* C16: a Classifier run for the workstation of the previous run, on the
\* same raw tree and the same lines of the index store, leaves that
\* workstation's output tree exactly as the previous run left it.
C16_SecondRunSameTree ==
    [][(/\ cls.ran /\ cls'.ran
        /\ cls'.ws = cls.ws
        /\ cls'.lines = cls.lines
        /\ raw' = raw)
       => sortLogs'[cls.ws] = sortLogs[cls.ws]]_vars

\* the Classifier has produced a role folder and plain copies, and the store
\* still holds the lines it loaded: the next run is a run on unchanged input
C16_Witness ==
    /\ cls.ran /\ cls.lines = store
    /\ sortLogs[cls.ws].folders # {}
    /\ \E e \in sortLogs[cls.ws].files : e.name.style = "plain"
    /\ ENABLED Sort(cls.ws)

(***************************************************************************)
(* Further claims on the comparison table (checked under SpecStore).       *)
(***************************************************************************)
\* the workstations the last Comparator run wrote a table for
Compared == {cmp.found[j].ws : j \in 1..Len(cmp.found)}

\* the matched (index, file) pairs of a role, in matching order
FoundOf(w, role) ==
    SelectSeq(cmp.found, LAMBDA e : e.ws = w /\ e.role = role)

RoleOfKind(kind) ==
    IF kind = "Max" THEN "max" ELSE IF kind = "Min" THEN "min" ELSE "abnormal"

\* 1st, 2nd, 3rd, 4th .. 12th
SuffixOf(n) ==
    IF n = 1 THEN "st" ELSE IF n = 2 THEN "nd" ELSE IF n = 3 THEN "rd" ELSE "th"

ColumnsOf(w) == tables[w].columns

\* C17 as stated: every column is labeled with the 1-based position of its
\* index within its role group (among the tagged or among the matched
\* indices of the role), and the table has one column per matched index.
C17_LabelsCarryPosition ==
    cmp.ran =>
      \A w \in Compared :
        /\ \A c \in 1..Len(ColumnsOf(w)) :
             LET col == ColumnsOf(w)[c]
                 role == RoleOfKind(col.label.kind)
             IN  \/ \E p \in 1..Len(FoundOf(w, role)) :
                       /\ FoundOf(w, role)[p].file.src = col.src
                       /\ col.label.ordinal.num = p
                 \/ \E p \in 1..Len(TagsOf(w, role)) :
                       /\ \E e \in 1..Len(FoundOf(w, role)) :
                            /\ FoundOf(w, role)[e].index = TagsOf(w, role)[p]
                            /\ FoundOf(w, role)[e].file.src = col.src
                       /\ col.label.ordinal.num = p
        /\ Len(ColumnsOf(w)) =
             Cardinality({cmp.found[j].index :
                             j \in {k \in 1..Len(cmp.found) : cmp.found[k].ws = w}})

\* C17, amended: every column carries its role name and the ordinal of the
\* index value itself (index 2 gives 2nd whatever its place in the role
\* group), no two columns share a label, and every matched min or max index
\* whose file holds a value has its column.
C17_LabelsCarryIndexValue ==
    cmp.ran =>
      \A w \in Compared :
        /\ \A c \in 1..Len(ColumnsOf(w)) :
             LET col == ColumnsOf(w)[c]
                 group == FoundOf(w, RoleOfKind(col.label.kind))
             IN  /\ col.label.kind \in {"Max", "Min", "Abnormal"}
                 /\ \E p \in 1..Len(group) :
                       /\ group[p].file.src = col.src
                       /\ col.label.ordinal.num = IntOf(group[p].index)
                       /\ col.label.ordinal.suffix = SuffixOf(IntOf(group[p].index))
        /\ \A c, d \in 1..Len(ColumnsOf(w)) :
             ColumnsOf(w)[c].label = ColumnsOf(w)[d].label => c = d
        /\ \A c \in 1..Len(ColumnsOf(w)) :
             ~ParseFileEmpty(ColumnsOf(w)[c].src.rows)
        /\ \A role \in {"min", "max"} :
             \A p \in 1..Len(FoundOf(w, role)) :
               ~ParseFileEmpty(FoundOf(w, role)[p].file.src.rows) =>
                 \E c \in 1..Len(ColumnsOf(w)) :
                    /\ RoleOfKind(ColumnsOf(w)[c].label.kind) = role
                    /\ ColumnsOf(w)[c].label.ordinal.num
                          = IntOf(FoundOf(w, role)[p].index)

\* the only matched max index is 2 and its column is Max..(2nd loop)
C17_Witness ==
    /\ cmp.ran /\ "WS-1" \in Compared
    /\ Len(FoundOf("WS-1", "max")) = 1
    /\ FoundOf("WS-1", "max")[1].index = <<"2">>
    /\ \E c \in 1..Len(ColumnsOf("WS-1")) :
          /\ ColumnsOf("WS-1")[c].label.kind = "Max"
          /\ ColumnsOf("WS-1")[c].label.ordinal.num = 2
          /\ ColumnsOf("WS-1")[c].label.ordinal.suffix = "nd"

\* the columns of the table the last Comparator run wrote for w, if any
TableOf(w) == IF w \in Compared THEN ColumnsOf(w) ELSE <<>>

ValuesIn(tags) == {tags[k] : k \in 1..Len(tags)}

\* the columns of a role kind that carry the ordinal of index value v
ColumnsFor(w, kind, v) ==
    {c \in 1..Len(TableOf(w)) :
        /\ TableOf(w)[c].label.kind = kind
        /\ TableOf(w)[c].label.ordinal.num = IntOf(v)}

\* C18: an index tagged abnormal and also min (max) has its Min (Max)
\* column with the _abnormal suffix and no Abnormal column; a resolved
\* abnormal index that is neither min nor max has exactly one Abnormal
\* column.
C18_AbnormalMerged ==
    cmp.ran =>
      \A w \in DOMAIN cmp.indices.roles :
        /\ \A v \in ValuesIn(TagsOf(w, "abnormal")) :
             IntOk(v) =>
               /\ v \in ValuesIn(TagsOf(w, "min")) =>
                    /\ ColumnsFor(w, "Min", v) # {}
                    /\ \A c \in ColumnsFor(w, "Min", v) : TableOf(w)[c].label.abnormal
                    /\ ColumnsFor(w, "Abnormal", v) = {}
               /\ v \in ValuesIn(TagsOf(w, "max")) =>
                    /\ ColumnsFor(w, "Max", v) # {}
                    /\ \A c \in ColumnsFor(w, "Max", v) : TableOf(w)[c].label.abnormal
                    /\ ColumnsFor(w, "Abnormal", v) = {}
        /\ \A p \in 1..Len(FoundOf(w, "abnormal")) :
             LET v == FoundOf(w, "abnormal")[p].index
             IN  v \notin ValuesIn(TagsOf(w, "min")) \cup ValuesIn(TagsOf(w, "max"))
                   => Cardinality(ColumnsFor(w, "Abnormal", v)) = 1

(***************************************************************************)
(* Claims on the table values (checked under SpecCompare).                 *)
(***************************************************************************)
KindColumns(w, kind) ==
    {c \in 1..Len(ColumnsOf(w)) : ColumnsOf(w)[c].label.kind = kind}

\* x is d rounded to four decimals: a multiple of 0.0001 within 0.00005
IsRounded4(x, d) ==
    IF d.k # "num" THEN x = d
    ELSE /\ x.k = "num"
         /\ x.v % (Unit \div 10000) = 0
         /\ 2 * (x.v - d.v) <= Unit \div 10000
         /\ 2 * (d.v - x.v) <= Unit \div 10000

\* every Time_Difference value is the rounded difference of columns mx, mn
DeltaFrom(w, mx, mn) ==
    /\ Len(tables[w].delta) = Len(tables[w].stages)
    /\ \A r \in 1..Len(tables[w].stages) :
         IsRounded4(tables[w].delta[r],
                    FSub(ValueAt(ColumnsOf(w)[mx].data, tables[w].stages[r]),
                         ValueAt(ColumnsOf(w)[mn].data, tables[w].stages[r])))

\* the place of an ordinal among the ordinals 1st .. 12th in str order
OrdinalRank(n) ==
    CHOOSE k \in 1..12 : <<10, 11, 12, 1, 2, 3, 4, 5, 6, 7, 8, 9>>[k] = n

\* str order of two column names of one kind: 'Max(' sorts before
\* 'Max_abnormal(', then the ordinals compare as text
NameBefore(a, b) ==
    \/ ~a.abnormal /\ b.abnormal
    \/ /\ a.abnormal = b.abnormal
       /\ OrdinalRank(a.ordinal.num) < OrdinalRank(b.ordinal.num)

LexFirst(w, kind) ==
    CHOOSE c \in KindColumns(w, kind) :
        \A d \in KindColumns(w, kind) :
            d # c => NameBefore(ColumnsOf(w)[c].label, ColumnsOf(w)[d].label)

LeftMost(w, kind) ==
    CHOOSE c \in KindColumns(w, kind) : \A d \in KindColumns(w, kind) : c <= d

HasBothKinds(w) == KindColumns(w, "Max") # {} /\ KindColumns(w, "Min") # {}

\* C19 as stated: with a Max and a Min column in the table, every
\* Time_Difference value is (lexicographically first Max column) minus
\* (lexicographically first Min column), rounded to four decimals.
C19_DeltaOfLexFirst ==
    cmp.ran =>
      \A w \in Compared :
        HasBothKinds(w) => DeltaFrom(w, LexFirst(w, "Max"), LexFirst(w, "Min"))

\* C19, amended: with a Max and a Min column in the table, every
\* Time_Difference value is (leftmost Max column) minus (leftmost Min
\* column), rounded to four decimals; columns stand in insertion order,
\* i.e. in the order of the tags in the store.
C19_DeltaOfLeftmost ==
    cmp.ran =>
      \A w \in Compared :
        HasBothKinds(w) => DeltaFrom(w, LeftMost(w, "Max"), LeftMost(w, "Min"))

\* max tags 2 and 10 in ascending order and min tag 1: the leftmost Max
\* column is Max(2nd loop), the first by name is Max(10th loop), and the
\* stage2 row holds 11.2345 - 10.0 = 1.2345
C19_Witness ==
    /\ cmp.ran /\ "WS-1" \in Compared /\ HasBothKinds("WS-1")
    /\ LeftMost("WS-1", "Max") # LexFirst("WS-1", "Max")
    /\ ColumnsOf("WS-1")[LeftMost("WS-1", "Max")].label.ordinal.num = 2
    /\ ColumnsOf("WS-1")[LexFirst("WS-1", "Max")].label.ordinal.num = 10
    /\ \E r \in 1..Len(tables["WS-1"].stages) :
          /\ tables["WS-1"].stages[r] = "stage2"
          /\ ValueAt(ColumnsOf("WS-1")[LeftMost("WS-1", "Max")].data, "stage2")
                = Decimal(112345, 0).f
          /\ ValueAt(ColumnsOf("WS-1")[LeftMost("WS-1", "Min")].data, "stage2")
                = Decimal(100000, 0).f
          /\ tables["WS-1"].delta[r] = Decimal(12345, 0).f
    /\ \E r \in 1..Len(tables["WS-1"].stages) :
          /\ tables["WS-1"].stages[r] = "stage3"
          /\ tables["WS-1"].delta[r] = Decimal(10001, 0).f

\* the rows of a record that carry a number in their second field
NumericRows(rows) ==
    {i \in 1..Len(rows) : Len(rows[i]) >= 2 /\ rows[i][2].t = "num"}

\* C20: the mapping parse_file returns for a cycle-time file holds exactly
\* the stage labels of the rows with a numeric value, each with the value of
\* the last such row; rows with an empty or non-numeric value appear nowhere
\* and replace nothing.
C20_LastNumericPerStage ==
    cmp.ran =>
      \A w \in Compared :
        \A c \in 1..Len(ColumnsOf(w)) :
          LET rows == ColumnsOf(w)[c].src.rows
              data == ColumnsOf(w)[c].data
          IN  /\ {data[n].stage : n \in 1..Len(data)}
                   = {StageOf(rows, i) : i \in NumericRows(rows)}
              /\ \A n \in 1..Len(data) :
                   \E i \in NumericRows(rows) :
                      /\ StageOf(rows, i) = data[n].stage
                      /\ rows[i][2].f = data[n].time
                      /\ \A j \in NumericRows(rows) :
                           StageOf(rows, j) = data[n].stage => j <= i

(***************************************************************************)
(* get_ordinal_suffix on its own: the function applied to the integers up   *)
(* to MaxOrdinal, which reach the second hundred and its 11, 12 and 13.     *)
(***************************************************************************)
MaxOrdinal == 125

\* one call get_ordinal_suffix(n) with an integer argument
ApplyOrdinal(n) ==
    /\ ordinal' = [called |-> TRUE, arg |-> n, out |-> OrdinalOfInt(n)]
    /\ UNCHANGED <<raw, ext, extracted, merged, sortLogs, cls, tables, cmp,
                   store, chart, box, threadVars, passes, saved_indices,
                   faults>>

OrdinalInit ==
    /\ FilesIdle
    /\ extracted = NoJson
    /\ store = <<>>
    /\ chart = NoChart
    /\ box = NoBox
    /\ ThreadIdle

OrdinalNext == \E n \in 0..MaxOrdinal : ApplyOrdinal(n)

SpecOrdinal == OrdinalInit /\ [][OrdinalNext]_vars

\* the suffix the rule of the specification gives to n
RuleSuffix(n) ==
    IF n % 100 \in {11, 12, 13} THEN "th"
    ELSE IF n % 10 = 1 THEN "st"
    ELSE IF n % 10 = 2 THEN "nd"
    ELSE IF n % 10 = 3 THEN "rd"
    ELSE "th"

Examples ==
    {<<1, "st">>, <<2, "nd">>, <<3, "rd">>, <<11, "th">>, <<21, "st">>,
     <<112, "th">>}

\* C21: for every non-negative integer n the suffix returned is "th" when
\* n mod 100 is 11, 12 or 13, otherwise "st", "nd" or "rd" for a last digit
\* of 1, 2 or 3, and "th" for any other; 1st, 2nd, 3rd, 11th, 21st, 112th
C21_OrdinalSuffixRule ==
    ordinal.called =>
        /\ ordinal.out.num = ordinal.arg
        /\ ordinal.out.text = <<>>
        /\ ordinal.out.suffix = RuleSuffix(ordinal.arg)
        /\ \A e \in Examples :
             ordinal.arg = e[1] => ordinal.out.suffix = e[2]

C21_Witness ==
    ordinal.called /\ ordinal.arg = 112 /\ ordinal.out.suffix = "th"

\* the matched (index, file) pairs the run c of the Comparator has for w
HitsOf(c, w) == {j \in 1..Len(c.found) : c.found[j].ws = w}

\* what a Comparator run c that turns the tables t into u owes workstation w
\* when faults stay where they occur
IsolatedAt(c, w, t, u) ==
    /\ \E k \in 1..Len(c.visited) : c.visited[k] = w
    /\ HitsOf(c, w) = {} =>
          /\ w \in DOMAIN u <=> w \in DOMAIN t
          /\ w \in DOMAIN t => u[w] = t[w]
    /\ \A j \in HitsOf(c, w) :
          (c.found[j].role \in {"min", "max"}
             /\ ~ParseFileEmpty(c.found[j].file.src.rows)) =>
            /\ w \in DOMAIN u
            /\ \E col \in 1..Len(u[w].columns) :
                 /\ RoleOfKind(u[w].columns[col].label.kind) = c.found[j].role
                 /\ u[w].columns[col].label.ordinal
                      = GetOrdinalSuffix(c.found[j].index)

\* C22: in every Comparator run, a workstation of the store for which no
\* index resolves to a file gets no table while every other workstation of
\* the store is still processed, and every min or max file that parses has
\* its column in the workstation's table whatever the other files do.
C22_FaultIsolation ==
    [][(cmp'.ran /\ (cmp' # cmp \/ tables' # tables)) =>
          \A i \in 1..Len(cmp'.indices.order) :
              IsolatedAt(cmp', cmp'.indices.order[i], tables, tables')]_vars

\* the last extraction found no iteration
NothingExtracted == ext.ran /\ ext.times = <<>>

\* the run stands before the extraction of the workstation last extracted,
\* or at a workstation that comes before it in info.json
NotPast(w) ==
    \E i \in 1..Len(info.keys) :
        /\ info.keys[i] = w
        /\ \/ run.ws < i
           \/ run.ws = i /\ run.script = 1

\* C23: when no workstation is configured the run ends with an error before
\* any stage, and once a workstation's extraction has yielded no iteration
\* the run never finishes and no later stage of that or of a following
\* workstation is started.
C23_ConfigErrorHalts ==
    /\ (info.exists /\ info.keys = <<>> /\ run.phase # "idle") =>
          run.phase = "error" /\ ~ext.ran /\ ~chart.ran /\ ~cls.ran /\ ~cmp.ran
    /\ NothingExtracted =>
          /\ run.phase # "done"
          /\ run.phase = "running" => NotPast(ext.ws)

(***************************************************************************)
(* The statistics passes of two workstations side by side: lineChart.py    *)
(* and then boxPlot.py for each, as two chains of processes that share     *)
(* important_index.txt.  A step is one truncation or one appended line.    *)
(***************************************************************************)
Truncation == <<"truncate">>

\* what one pass does to the store, in program order: generate_charts
\* truncates, create_chart appends the min and max lines, and
\* create_single_boxplot appends the median and abnormal lines
PassOps(w, data) ==
    IF data = <<>> THEN <<Truncation>>
    ELSE LET e == ChartFindExtremeIndices(data)
             r == BoxResult(w, data)
         IN  <<Truncation>>
             \o ChartSaveImportantIndices(<<>>, w, e.min_indices, e.max_indices)
             \o BoxSaveImportantIndices(<<>>, {}, w, r.median_index,
                    [j \in 1..Len(r.outliers) |-> r.outliers[j].idx]).lines

\* open(index_path, "w").close() of the pass of w
PassTruncate(w) ==
    /\ passes[w].todo # <<>> /\ Head(passes[w].todo) = Truncation
    /\ store' = <<>>
    /\ passes' = [passes EXCEPT ![w].todo = Tail(@)]
    /\ UNCHANGED <<extracted, chart, box, fileVars, threadVars, ordinal,
                   saved_indices, faults>>

\* one f.write(...) of the pass of w on the store opened for appending
PassAppend(w) ==
    /\ passes[w].todo # <<>> /\ Head(passes[w].todo) # Truncation
    /\ store' = Append(store, Head(passes[w].todo))
    /\ passes' = [passes EXCEPT ![w].todo = Tail(@),
                                ![w].written = Append(@, Head(passes[w].todo))]
    /\ UNCHANGED <<extracted, chart, box, fileVars, threadVars, ordinal,
                   saved_indices, faults>>

PassSeries ==
    {<<Seconds(1), Seconds(2)>>, <<Seconds(2), Seconds(1), Seconds(1)>>,
     <<Seconds(1), Seconds(1), Seconds(1), Seconds(3)>>}

ConcurrentInit ==
    /\ FilesIdle
    /\ \E a \in PassSeries, b \in PassSeries :
         /\ extracted = [w \in Workstations |->
                           IF w = "WS-1" THEN Present(a)
                           ELSE IF w = "WS-2" THEN Present(b) ELSE Absent]
         /\ passes = [w \in Workstations |->
                        IF w = "WS-1" THEN [todo |-> PassOps(w, a), written |-> <<>>]
                        ELSE IF w = "WS-2"
                        THEN [todo |-> PassOps(w, b), written |-> <<>>]
                        ELSE NoPass]
    /\ store = <<>>
    /\ chart = NoChart
    /\ box = NoBox
    /\ info = NoConfig /\ run = NoRun /\ ops = <<>>
    /\ ordinal = NoOrdinal /\ saved_indices = {} /\ faults = NoFaults

ConcurrentNext ==
    \E w \in Workstations : PassTruncate(w) \/ PassAppend(w)

SpecConcurrent == ConcurrentInit /\ [][ConcurrentNext]_vars

PassesDone == \A w \in Workstations : passes[w].todo = <<>>

\* the mapping parse_index_file reads back for w from the lines
MappingOf(lines, w) ==
    LET d == ParseIndexFile(lines)
    IN  IF w \in DOMAIN d.roles THEN d.roles[w]
        ELSE [min |-> <<>>, max |-> <<>>, abnormal |-> <<>>]

\* the store two passes leave when the pass of v runs after the pass of u
OneAfterTheOther(u, v) ==
    SelectSeq(PassOps(v, extracted[v].times), LAMBDA o : o # Truncation)

\* C24: once the concurrent passes of two workstations have finished, every
\* tag either pass appended is in the store, and the mapping read back for
\* each workstation is the one read back after the passes ran one after the
\* other.
C24_InterleavingHarmless ==
    PassesDone =>
        /\ \A w \in Workstations :
             \A k \in 1..Len(passes[w].written) :
                \E n \in 1..Len(store) : store[n] = passes[w].written[k]
        /\ \A w \in Workstations :
             \/ MappingOf(store, w) = MappingOf(OneAfterTheOther("WS-1", "WS-2"), w)
             \/ MappingOf(store, w) = MappingOf(OneAfterTheOther("WS-2", "WS-1"), w)

\* what stage k of the fixed order leaves behind for workstation w once it
\* has run to completion (extract, line chart, boxplot, Classifier,
\* Comparator, export), in terms of the state s of the files
StageCompleted(k, w, e, st, c, m) ==
    /\ k = 1 => e.ran /\ e.ws = w
    /\ k \in {2, 3} => \A n \in 1..Len(st) : LineWs(st[n]) = w
    /\ k = 4 => c.ran /\ c.ws = w
    /\ k = 5 => m.ran /\ m.lines = st

\* C25: in a run the stages of a workstation start in the order extract,
\* line chart, boxplot, Classifier, Comparator, export, each one when the
\* one before it has completed, and workstation k+1 starts with its first
\* stage, only after the last stage of workstation k.
C25_StageSequential ==
    [][/\ (run.phase # "running" /\ run'.phase = "running") =>
             run'.ws = 1 /\ run'.script = 1
       /\ (run.phase = "running" /\ run'.phase = "running") =>
             /\ StageCompleted(run.script, info.keys[run.ws],
                               ext', store', cls', cmp')
             /\ \/ run'.ws = run.ws /\ run'.script = run.script + 1
                \/ /\ run.script = 6
                   /\ run'.ws = run.ws + 1 /\ run'.script = 1
       /\ (run.phase = "running" /\ run'.phase = "done") =>
             run.ws = Len(info.keys) /\ run.script = 6]_vars

\* the second workstation stands before its last stage, its Classifier and
\* Comparator done
C25_Witness ==
    /\ run.phase = "running" /\ run.ws = 2 /\ run.script = 6
    /\ ext.ws = "WS-2" /\ cls.ws = "WS-2" /\ cmp.ran

(***************************************************************************)
(* save_important_indices called again and again on one BoxPlotGenerator,  *)
(* on a store that holds the min and max lines of the line chart.          *)
(***************************************************************************)
SavedWs == {"WS-1", "WS-2"}
SavedIdx == {1, 2}
OutlierLists == {<<>>} \cup {<<i>> : i \in SavedIdx}
                       \cup {<<i, j>> : i \in SavedIdx, j \in SavedIdx}

\* one call save_important_indices(dataset_name, median_index, outlier_indices)
SaveImportantIndices(dataset_name, median_index, outlier_indices) ==
    LET r == BoxSaveImportantIndices(store, saved_indices, dataset_name,
                                     median_index, outlier_indices)
    IN  /\ store' = r.lines
        /\ saved_indices' = r.saved
        /\ UNCHANGED <<extracted, chart, box, fileVars, threadVars, ordinal,
                       passes, faults>>

DedupInit ==
    /\ FilesIdle
    /\ extracted = NoJson
    /\ store \in {<<>>,
                  <<TagLine("WS-1", "min", 1), TagLine("WS-1", "max", 2)>>,
                  <<TagLine("WS-2", "min", 2), TagLine("WS-2", "max", 2)>>}
    /\ chart = NoChart
    /\ box = NoBox
    /\ ThreadIdle

DedupNext ==
    /\ Len(store) <= MaxStore
    /\ \E w \in SavedWs, m \in SavedIdx, o \in OutlierLists :
          SaveImportantIndices(w, m, o)

SpecDedup == DedupInit /\ [][DedupNext]_vars

IsPrefix(s, t) == Len(s) <= Len(t) /\ \A k \in 1..Len(s) : t[k] = s[k]

BoxRole(line) == Len(line) >= 3 /\ line[2] \in {"median", "abnormal"}

\* C26: whatever calls the boxplot stage makes within one process, every
\* call leaves the lines already in the store where they are, min and max
\* lines included, and no median or abnormal line stands in the store twice.
C26_BoxLinesOnce ==
    [][/\ IsPrefix(store, store')
       /\ \A k \in (Len(store) + 1)..Len(store') : BoxRole(store'[k])
       /\ \A i, j \in 1..Len(store') :
            (BoxRole(store'[i]) /\ store'[i] = store'[j]) => i = j]_vars

\* both lines of the line chart still lead the store after at least three
\* box lines were appended behind them
C26_Witness ==
    /\ Len(store) >= 5
    /\ store[1] = TagLine("WS-1", "min", 1)
    /\ store[2] = TagLine("WS-1", "max", 2)
    /\ Cardinality(saved_indices) = Len(store) - 2

(***************************************************************************)
(* The Extractor runs for two workstations in any order, with or without   *)
(* the merged record of an earlier run.                                    *)
(***************************************************************************)
\* all_restore_times.json as an earlier run left it
EarlierMerged ==
    [w \in Workstations |->
        IF w = "WS-1" THEN Present(<<Seconds(3)>>)
        ELSE IF w = "WS-2" THEN Present(<<Seconds(3), Seconds(3)>>)
        ELSE Absent]

MergeTrees == {<<>>, OneFile, StoreTree, SameNameTree}

MergeInit ==
    /\ \E t \in MergeTrees, u \in MergeTrees :
         raw = [w \in Workstations |->
                  IF w = "WS-1" THEN t ELSE IF w = "WS-2" THEN u ELSE <<>>]
    /\ ext = NoExt
    /\ extracted = NoJson
    /\ merged \in {NoJson, EarlierMerged}
    /\ sortLogs = NoOutput
    /\ cls = NoCls
    /\ tables = NoTables
    /\ cmp = NoCmp
    /\ store = <<>>
    /\ chart = NoChart
    /\ box = NoBox
    /\ ThreadIdle

MergeNext ==
    (\E w \in Workstations : Extract(w)) /\ UNCHANGED <<threadVars, sideVars>>

SpecMerge == MergeInit /\ [][MergeNext]_vars

\* the extraction whose outcome is in e wrote its result files
ExtractorSucceeded(e) == e.ran /\ e.returned /\ e.times # <<>>

\* C27: when the Extractor has succeeded for W, all_restore_times.json maps
\* W to the series just extracted, whatever it held for W before, and holds
\* for every other workstation what it held before.
C27_MergedLastWriteWins ==
    [][(ExtractorSucceeded(ext') /\ (ext' # ext \/ merged' # merged)) =>
          \A v \in Workstations :
             merged'[v] = IF v = ext'.ws THEN Present(ext'.times) ELSE merged[v]]_vars

\* the merged record of an earlier run after a new extraction for WS-1
C27_Witness ==
    /\ ExtractorSucceeded(ext) /\ ext.ws = "WS-1"
    /\ merged["WS-1"] = Present(ext.times)
    /\ merged["WS-1"] # EarlierMerged["WS-1"]
    /\ merged["WS-2"] = EarlierMerged["WS-2"]

(***************************************************************************)
(* The Classifier on a file system that refuses some deletions and some    *)
(* copies.  A folder that rmtree could not remove keeps any part of its    *)
(* files; the folder of a group is created before its copies are tried.    *)
(***************************************************************************)
\* one Classifier run for w in which the deletion of the named folders and
\* files and the copy of the named source files fail
SortWithFaults(w, folders, files, sources) ==
    LET r == ProcessWorkstationLogsExcept(raw[w], w, store, folders, files,
                                          sources)
    IN  /\ cls' = r.cls
        /\ sortLogs' = [sortLogs EXCEPT ![w] = r.out]
        /\ faults' = [ws |-> w, folders |-> folders, files |-> files,
                      sources |-> sources]
        /\ UNCHANGED <<raw, ext, extracted, merged, tables, cmp, store, chart,
                       box, threadVars, ordinal, passes, saved_indices>>

\* what an earlier run left in sort_logs/WS-1/
OldFolder == FormatFolderName(2, <<"min">>, <<1, 1>>)
OldOutput ==
    [exists |-> TRUE,
     folders |-> {OldFolder},
     files |-> {[dir |-> OldFolder, name |-> OrigName(StoreTree[2]),
                 src |-> StoreTree[2]],
                [dir |-> RootDir, name |-> RootCopyName(2, <<1, 1>>),
                 src |-> StoreTree[2]],
                [dir |-> RootDir, name |-> PlainName(1, <<1, 0>>, StoreTree[1]),
                 src |-> StoreTree[1]]}]

FaultStores ==
    {<<>>, <<TagLine("WS-1", "min", 1), TagLine("WS-1", "max", 2)>>,
     <<TagLine("WS-2", "min", 1)>>}

FaultsInit ==
    /\ raw = [w \in Workstations |->
                IF w = "WS-1" THEN StoreTree
                ELSE IF w = "WS-2" THEN SameNameTree ELSE <<>>]
    /\ sortLogs \in {NoOutput, [NoOutput EXCEPT !["WS-1"] = OldOutput]}
    /\ store \in FaultStores
    /\ ext = NoExt
    /\ extracted = NoJson
    /\ merged = NoJson
    /\ cls = NoCls
    /\ tables = NoTables
    /\ cmp = NoCmp
    /\ chart = NoChart
    /\ box = NoBox
    /\ ThreadIdle

SourceFiles(w) == {raw[w][k] : k \in 1..Len(raw[w])}

\* one run on what the earlier, faultless runs left
FaultsNext ==
    /\ ~cls.ran
    /\ \E w \in {"WS-1", "WS-2"} :
      \E folders \in SUBSET sortLogs[w].folders,
         sources \in SUBSET SourceFiles(w) :
        \E files \in SUBSET {e \in sortLogs[w].files :
                               e.dir = RootDir \/ e.dir \in folders} :
           SortWithFaults(w, folders, files, sources)

SpecFaults == FaultsInit /\ [][FaultsNext]_vars

\* the number the run c gave the group of f
IndexIn(c, f) ==
    CHOOSE i \in 1..Len(c.keys) : c.keys[i] = ExtractTimestampIdentifier(f)

\* the places (folder, name) in the output tree where the run c puts f
PlacesOf(c, f) ==
    LET i == IndexIn(c, f)
    IN  IF i \in DOMAIN c.marks
        THEN {<<FormatFolderName(i, c.marks[i], c.keys[i]), OrigName(f)>>}
             \cup (IF IsCycleFile(f)
                   THEN {<<RootDir, RootCopyName(i, c.keys[i])>>} ELSE {})
        ELSE IF IsCsv(f) THEN {<<RootDir, PlainName(i, c.keys[i], f)>>}
        ELSE {}

\* the source files whose copy did not fail in the run with the faults flt
CopiedIn(flt) == SourceFiles(flt.ws) \ flt.sources

\* C28: in a Classifier run in which some deletions and some copies fail,
\* the run still completes; every source file whose copy did not fail has a
\* copy in each of its places; and every old file or folder whose deletion
\* did not fail is gone unless this run has put it there again.
C28_IoFaultsIsolated ==
    [][cls'.ran =>
          LET w == faults'.ws
              c == cls'
              new == sortLogs'[w]
              old == sortLogs[w]
              ok == CopiedIn(faults')
          IN  /\ c.ws = w /\ new.exists
              /\ \A f \in ok : \A p \in PlacesOf(c, f) :
                    \E e \in new.files :
                       /\ e.dir = p[1] /\ e.name = p[2]
                       /\ e.src \in ok /\ p \in PlacesOf(c, e.src)
              /\ \A e \in old.files \ faults'.files :
                    e \in new.files =>
                       \E f \in ok : <<e.dir, e.name>> \in PlacesOf(c, f)
              /\ \A d \in old.folders \ faults'.folders :
                    d \in new.folders =>
                       \E i \in DOMAIN c.marks :
                          i <= Len(c.keys)
                            /\ d = FormatFolderName(i, c.marks[i], c.keys[i])]_vars

\* the copy of the cycle-time record of the second group failed and so did
\* the deletion of an old file; the log of that group is in its role folder
\* and the old file is still there
C28_Witness ==
    /\ cls.ran /\ faults.ws = "WS-1"
    /\ faults.sources = {StoreTree[2]}
    /\ \E e \in faults.files : e \in sortLogs["WS-1"].files /\ e.dir = RootDir
    /\ \E e \in sortLogs["WS-1"].files :
          e.src = StoreTree[3] /\ e.dir = FormatFolderName(2, <<"max">>, <<1, 1>>)
    /\ ~ \E e \in sortLogs["WS-1"].files :
          e.src = StoreTree[2] /\ e \notin faults.files

(***************************************************************************)
(* A run of the orchestrator that follows an earlier run: the json files   *)
(* and the index store of the earlier run may still be on disk, and the    *)
(* raw trees need not be what they were.                                   *)
(***************************************************************************)
EarlierLines ==
    <<TagLine("WS-1", "min", 1), TagLine("WS-1", "max", 1),
      TagLine("WS-1", "median", 1)>>

RerunInit ==
    /\ info \in {TwoStations(TRUE), TwoStations(FALSE)}
    /\ \E t \in MergeTrees, u \in {<<>>, OneFile} :
         raw = [w \in Workstations |->
                  IF w = "WS-1" THEN t ELSE IF w = "WS-2" THEN u ELSE <<>>]
    /\ \/ extracted = NoJson /\ merged = NoJson /\ store = <<>>
       \/ extracted = EarlierMerged /\ merged = EarlierMerged
            /\ store = EarlierLines
    /\ ext = NoExt
    /\ sortLogs = NoOutput
    /\ cls = NoCls
    /\ tables = NoTables
    /\ cmp = NoCmp
    /\ chart = NoChart
    /\ box = NoBox
    /\ run = NoRun
    /\ ops = <<>>
    /\ SideIdle

RerunNext == Start \/ RunScript \/ ScriptFails

SpecRerun == RerunInit /\ [][RerunNext]_vars

\* the tags the statistics stages append for w from the series
TagsFrom(w, data) ==
    SelectSeq(PassOps(w, data), LAMBDA o : o # Truncation)

\* C29: in the pass of a workstation W the Classifier and the Comparator
\* read a store that holds every tag the chart and boxplot stages of the
\* pass appended for W from the series the pass extracted, and no tag that
\* comes from a series W had in an earlier run.
C29_PassReadsOwnTags ==
    (run.phase = "running" /\ run.script > 4) =>
        LET w == info.keys[run.ws]
        IN  /\ ext.ran /\ ext.ws = w
            /\ cls.ran /\ cls.ws = w
            /\ cls.lines = TagsFrom(w, ext.times)
            /\ run.script > 5 => cmp.ran /\ cmp.lines = TagsFrom(w, ext.times)

Ended(r) == r.phase \in {"done", "error"}

\* the stages that have returned success in the run when it takes the step
\* from r to s
SucceededBy(r, s) ==
    IF r.phase # "running" THEN 0
    ELSE IF s.phase = "error" /\ s.signal = "script failed"
    THEN (r.ws - 1) * Len(Scripts) + (r.script - 1)
    ELSE (r.ws - 1) * Len(Scripts) + r.script

\* one signal at the end of a run and none before, no stage after it
OneTerminalSignal ==
    /\ run'.phase = "running" => run'.signal = "none"
    /\ run'.phase = "done" => run'.signal = "finished"
    /\ run'.phase = "error" => run'.signal \notin {"none", "finished"}
    /\ Ended(run) =>
          /\ run'.phase # "done"
          /\ UNCHANGED <<ext, cls, cmp, store, sortLogs, tables, chart, box>>

\* C30 as stated: every run ends with exactly one terminal signal, which is
\* finished if and only if every stage of every configured workstation has
\* returned success and error otherwise; after the signal no stage is
\* started and finished does not follow error.
C30_FinishedIffAllSucceeded ==
    [][/\ OneTerminalSignal
       /\ Ended(run') =>
            (run'.signal = "finished"
               <=> SucceededBy(run, run') = Len(Scripts) * Len(info.keys))]_vars

\* C30, amended: as above, where finished also needs an info.json that
\* configures at least one workstation; a run without info.json or without
\* any WS- key ends with error although no stage has failed.
C30_FinishedIffConfiguredAndSucceeded ==
    [][/\ OneTerminalSignal
       /\ Ended(run') =>
            (run'.signal = "finished"
               <=> /\ info.exists /\ info.keys # <<>>
                   /\ SucceededBy(run, run') = Len(Scripts) * Len(info.keys))]_vars

\* a run that ended with error at a stage of the second workstation, after
\* the Comparator of the first had run
C30_Witness ==
    /\ run.phase = "error" /\ run.signal = "script failed"
    /\ ext.ran /\ ext.ws = "WS-2" /\ cmp.ran /\ cls.ws = "WS-1"

====
